---- MODULE Spec2Model ----
(***************************************************************************)
(* Model of the detector engine of motion-tracking-poc: the Fall,          *)
(* Inactivity, Zone and Presence detectors and their update / configure / *)
(* reset contract.                                                         *)
(*                                                                         *)
(* Units.  Timestamps and durations are whole milliseconds.  Landmark      *)
(* coordinates are integers in units of 1/CoordScale of the frame, and     *)
(* visibilities are integers in units of 1/VisScale.  Every comparison of  *)
(* the code is cross-multiplied so that it is exact on these integers.     *)
(*                                                                         *)
(* A nullable field (T | null) holds Null == <<>> or Some(v) == <<v>>.     *)
(* A landmark array is a sequence of landmarks; the depth z is left out,   *)
(* no detector reads it.                                                   *)
(***************************************************************************)
EXTENDS Integers, Sequences, FiniteSets, TLC

VARIABLES
    fall,             \* the FallDetector instance
    inactivity,       \* the InactivityDetector instance
    zone,             \* the ZoneDetector instance
    presence,         \* the PresenceDetector instance
    now,              \* the latest timestamp handed to an update
    focus,            \* the detector instance this run drives
    last,             \* history: the last call, its inputs and its result
    fallRunStart,     \* history: timestamp of the first frame of the current
                      \*   run of consecutive fallen-posture frames, or Null
    pairSum,          \* history: sum of the deltas between consecutive
                      \*   landmark frames since the last movement or reset
    prevWasLandmark,  \* history: the previous update since reset had landmarks
    sawNone,          \* history: some update since reset had no landmarks
    outsideSum,       \* history: sum of the deltas of the frames not inside the
                      \*   zone since the last inside frame, zone change or reset
    absenceSum,       \* history: sum of the deltas of the frames without
                      \*   landmarks since the last frame with landmarks or reset
    deltaSum,         \* history: sum of the deltas between consecutive updates
                      \*   since the accumulator of the driven detector was
                      \*   last set to zero
    host              \* the module state of main.ts, the zone overlay and the
                      \*   alerts, with the results of the latest frame

vars == <<fall, inactivity, zone, presence, now, focus, last, fallRunStart,
          pairSum, prevWasLandmark, sawNone, outsideSum, absenceSum,
          deltaSum, host>>

----------------------------------------------------------------------------
(* Bounds of the model *)

MaxTime == 3000

\* Frame intervals in ms: irregular, with stalls and repeated timestamps.
Deltas == {0, 500, 1000}

\* Frame intervals of the runs that exercise the movement score.
ScoreDeltas == {0, 1000}

HoldDurations == {0, 1000, 2000}

InactivityDurations == {0, 2000}

Sensitivities == {1, 10}

BreachDurations == {0, 1000, 2000}

Timeouts == {0, 1000, 2000}

----------------------------------------------------------------------------
(* Shared vocabulary *)

Null == <<>>

Some(v) == <<v>>

Val(o) == o[1]

OK == "ok"

WARNING == "warning"

ALERT == "alert"

Detectors == {"fall", "inactivity", "zone", "presence"}

CoordScale == 10000

VisScale == 100

Abs(n) == IF n < 0 THEN -n ELSE n

SetMin(S) == CHOOSE m \in S : \A n \in S : m <= n

SetMax(S) == CHOOSE m \in S : \A n \in S : m >= n

\* Number.prototype.toFixed(digits) of ms / 1000, as the integer n that is
\* printed with the decimal point `digits` places from the right: the n for
\* which n / 10^digits - ms / 1000 is closest to zero, the larger n on a tie.
\* Timestamps of the model are multiples of 500 ms, for which ms / 1000 is a
\* binary fraction, so a tie in the decimal value is a tie in the double.
ToFixed(ms, digits) ==
    LET unit == IF digits = 0 THEN 1000 ELSE 100
    IN  (ms + unit \div 2) \div unit

\* Math.floor(ms / 1000)
FloorSeconds(ms) == ms \div 1000

\* A value of a configuration bag (Record<string, unknown>) with its typeof.
Num(n) == [type |-> "number", value |-> n]

NotANumber == [type |-> "string", value |-> 0]

EmptyConfig == [k \in {} |-> NotANumber]

IsNumber(config, key) == key \in DOMAIN config /\ config[key].type = "number"

Result(status, message) == [status |-> status, message |-> message]

----------------------------------------------------------------------------
(* Landmark frames (the inputs), after src/src/ui.ts mock landmark factories *)

\* The landmark array of a frame is a sequence; LANDMARK names the positions
\* the detectors read.  The model keeps 7 of the 33 landmarks of a pose.
LANDMARK == [NOSE |-> 1, LEFT_SHOULDER |-> 2, RIGHT_SHOULDER |-> 3,
             LEFT_HIP |-> 4, RIGHT_HIP |-> 5, LEFT_ANKLE |-> 6,
             RIGHT_ANKLE |-> 7]

lm(x, y, visibility) == [x |-> x, y |-> y, visibility |-> visibility]

\* Upright person, hips at (hipX, hipY), shoulders 0.25 above.
standingPose(hipX, hipY) ==
    << lm(hipX, hipY - 4000, 99),
       lm(hipX - 800, hipY - 2500, 99),
       lm(hipX + 800, hipY - 2500, 99),
       lm(hipX - 600, hipY, 99),
       lm(hipX + 600, hipY, 99),
       lm(hipX - 500, hipY + 3500, 99),
       lm(hipX + 500, hipY + 3500, 99) >>

\* Person lying flat, spread along x, shoulders at nearly the hips' y.
fallenPose(hipX, hipY) ==
    << lm(hipX - 3000, hipY - 100, 99),
       lm(hipX - 1500, hipY - 100, 99),
       lm(hipX - 1500, hipY + 100, 99),
       lm(hipX - 200, hipY - 100, 99),
       lm(hipX + 200, hipY + 100, 99),
       lm(hipX + 2700, hipY - 100, 99),
       lm(hipX + 2700, hipY + 100, 99) >>

shiftPose(pose, dx, dy) ==
    [i \in DOMAIN pose |->
        lm(pose[i].x + dx, pose[i].y + dy, pose[i].visibility)]

\* The same pose seen with another confidence on every landmark.
withVisibility(pose, v) ==
    [i \in DOMAIN pose |-> lm(pose[i].x, pose[i].y, v)]

\* Every landmark on one horizontal line: a bounding box of height 0.
flatPose(hipX, hipY) ==
    [i \in DOMAIN fallenPose(hipX, hipY) |->
        lm(fallenPose(hipX, hipY)[i].x, hipY, 99)]

\* Torso collapsed (shoulders at hip height) but the box is taller than wide.
crouchedPose(hipX, hipY) ==
    << lm(hipX, hipY - 2000, 99),
       lm(hipX - 800, hipY - 200, 99),
       lm(hipX + 800, hipY - 200, 99),
       lm(hipX - 600, hipY, 99),
       lm(hipX + 600, hipY, 99),
       lm(hipX - 500, hipY + 1500, 99),
       lm(hipX + 500, hipY + 1500, 99) >>

\* A fallen pose of which only the head is seen with confidence: the box of
\* the visible landmarks is a single point.
headOnlyPose(hipX, hipY) ==
    [i \in DOMAIN fallenPose(hipX, hipY) |->
        lm(fallenPose(hipX, hipY)[i].x, fallenPose(hipX, hipY)[i].y,
           IF i = LANDMARK.NOSE THEN 99 ELSE 20)]

FallPoses == { standingPose(5000, 5500),
               fallenPose(5000, 7000),
               withVisibility(fallenPose(5000, 7000), 50),
               withVisibility(fallenPose(5000, 7000), 49),
               flatPose(5000, 7000),
               headOnlyPose(5000, 7000),
               crouchedPose(5000, 5500) }

----------------------------------------------------------------------------
(* Fall Detector -- src/unnamed/part_002 *)

Infinity == 1000000000

FallDetector(config) ==
    [holdDuration |-> config.holdDuration, fallenSince |-> Null]

\* Variant: no guard on the height of the box; width / height is then
\* NaN for no visible landmark or a single point, Infinity for a flat box.
checkFallenPosture_NoHeightGuard(landmarks) ==
    LET shoulderMidY2 == landmarks[LANDMARK.LEFT_SHOULDER].y + landmarks[LANDMARK.RIGHT_SHOULDER].y
        hipMidY2      == landmarks[LANDMARK.LEFT_HIP].y + landmarks[LANDMARK.RIGHT_HIP].y
        seen == {i \in DOMAIN landmarks : ~(landmarks[i].visibility < VisScale \div 2)}
        xs == {landmarks[i].x : i \in seen}
        ys == {landmarks[i].y : i \in seen}
    IN  IF Abs(shoulderMidY2 - hipMidY2) >= 2 * ((5 * CoordScale) \div 100)
        THEN FALSE
        ELSE IF seen = {} THEN FALSE
        ELSE IF SetMax(ys) = SetMin(ys) THEN SetMax(xs) > SetMin(xs)
        ELSE 10 * (SetMax(xs) - SetMin(xs)) > 14 * (SetMax(ys) - SetMin(ys))

checkFallenPosture(landmarks) ==
    LET shoulderMidY2 == landmarks[LANDMARK.LEFT_SHOULDER].y + landmarks[LANDMARK.RIGHT_SHOULDER].y
        hipMidY2      == landmarks[LANDMARK.LEFT_HIP].y + landmarks[LANDMARK.RIGHT_HIP].y
        shoulderHipDist2 == Abs(shoulderMidY2 - hipMidY2)
        seen == {i \in DOMAIN landmarks : ~(landmarks[i].visibility < VisScale \div 2)}
        minX == IF seen = {} THEN Infinity ELSE SetMin({landmarks[i].x : i \in seen})
        maxX == IF seen = {} THEN -Infinity ELSE SetMax({landmarks[i].x : i \in seen})
        minY == IF seen = {} THEN Infinity ELSE SetMin({landmarks[i].y : i \in seen})
        maxY == IF seen = {} THEN -Infinity ELSE SetMax({landmarks[i].y : i \in seen})
        width  == maxX - minX
        height == maxY - minY
    IN  IF shoulderHipDist2 >= 2 * ((5 * CoordScale) \div 100)   \* >= 0.05
        THEN FALSE
        ELSE IF height <= 0
             THEN FALSE
             ELSE 10 * width > 14 * height                         \* w/h > 1.4

\* Variant: the hold is confirmed only once elapsed exceeds holdDuration.
FallUpdate_StrictHold(d, landmarks, timestamp) ==
    IF landmarks = Null \/ ~checkFallenPosture(Val(landmarks))
    THEN [d |-> [d EXCEPT !.fallenSince = Null], result |-> Result(OK, <<>>)]
    ELSE LET since   == IF d.fallenSince = Null THEN Some(timestamp) ELSE d.fallenSince
             elapsed == timestamp - Val(since)
         IN  [d |-> [d EXCEPT !.fallenSince = since],
              result |->
                IF elapsed > d.holdDuration
                THEN Result(ALERT, <<"Fall detected", ToFixed(elapsed, 1)>>)
                ELSE Result(WARNING, <<"Possible fall", ToFixed(elapsed, 1)>>)]

\* Variant: a frame without landmarks returns OK but leaves the timer running.
FallUpdate_NullKeepsTimer(d, landmarks, timestamp) ==
    IF landmarks = Null
    THEN [d |-> d, result |-> Result(OK, <<>>)]
    ELSE IF ~checkFallenPosture(Val(landmarks))
    THEN [d |-> [d EXCEPT !.fallenSince = Null], result |-> Result(OK, <<>>)]
    ELSE LET since   == IF d.fallenSince = Null THEN Some(timestamp) ELSE d.fallenSince
             elapsed == timestamp - Val(since)
         IN  [d |-> [d EXCEPT !.fallenSince = since],
              result |->
                IF elapsed >= d.holdDuration
                THEN Result(ALERT, <<"Fall detected", ToFixed(elapsed, 1)>>)
                ELSE Result(WARNING, <<"Possible fall", ToFixed(elapsed, 1)>>)]

\* Variant: a new timer starts at 0 instead of at the frame's timestamp.
FallUpdate_StartsAtZero(d, landmarks, timestamp) ==
    IF landmarks = Null \/ ~checkFallenPosture(Val(landmarks))
    THEN [d |-> [d EXCEPT !.fallenSince = Null], result |-> Result(OK, <<>>)]
    ELSE LET since   == IF d.fallenSince = Null THEN Some(0) ELSE d.fallenSince
             elapsed == timestamp - Val(since)
         IN  [d |-> [d EXCEPT !.fallenSince = since],
              result |->
                IF elapsed >= d.holdDuration
                THEN Result(ALERT, <<"Fall detected", ToFixed(elapsed, 1)>>)
                ELSE Result(WARNING, <<"Possible fall", ToFixed(elapsed, 1)>>)]

\* Variant: the timer is re-armed at the frame that raises the ALERT.
FallUpdate_RestartOnAlert(d, landmarks, timestamp) ==
    IF landmarks = Null \/ ~checkFallenPosture(Val(landmarks))
    THEN [d |-> [d EXCEPT !.fallenSince = Null], result |-> Result(OK, <<>>)]
    ELSE LET since   == IF d.fallenSince = Null THEN Some(timestamp) ELSE d.fallenSince
             elapsed == timestamp - Val(since)
         IN  IF elapsed >= d.holdDuration
             THEN [d |-> [d EXCEPT !.fallenSince = Some(timestamp)],
                   result |-> Result(ALERT, <<"Fall detected", ToFixed(elapsed, 1)>>)]
             ELSE [d |-> [d EXCEPT !.fallenSince = since],
                   result |-> Result(WARNING, <<"Possible fall", ToFixed(elapsed, 1)>>)]

FallUpdate(d, landmarks, timestamp) ==
    IF landmarks = Null
    THEN [d |-> [d EXCEPT !.fallenSince = Null], result |-> Result(OK, <<>>)]
    ELSE IF ~checkFallenPosture(Val(landmarks))
    THEN [d |-> [d EXCEPT !.fallenSince = Null], result |-> Result(OK, <<>>)]
    ELSE LET since   == IF d.fallenSince = Null THEN Some(timestamp) ELSE d.fallenSince
             elapsed == timestamp - Val(since)
         IN  [d |-> [d EXCEPT !.fallenSince = since],
              result |->
                IF elapsed >= d.holdDuration
                THEN Result(ALERT, <<"Fall detected", ToFixed(elapsed, 1)>>)
                ELSE Result(WARNING, <<"Possible fall", ToFixed(elapsed, 1)>>)]

\* Variant: a new hold duration restarts the confirmation timer.
FallConfigure_RestartsTimer(d, config) ==
    IF IsNumber(config, "holdDuration")
    THEN [d EXCEPT !.holdDuration = config["holdDuration"].value,
                   !.fallenSince = Null]
    ELSE d

FallConfigure(d, config) ==
    IF IsNumber(config, "holdDuration")
    THEN [d EXCEPT !.holdDuration = config["holdDuration"].value]
    ELSE d

FallReset(d) == [d EXCEPT !.fallenSince = Null]

----------------------------------------------------------------------------
(* Inactivity Detector -- src/unnamed/part_003 *)
(* deadZone and movementThreshold are kept as 9 times their value in        *)
(* coordinate units, 9 being SENSITIVITY_MAX - SENSITIVITY_MIN, so that     *)
(* lerp is exact for every integer sensitivity.                             *)

SENSITIVITY_MIN == 1

SENSITIVITY_MAX == 10

DEAD_ZONE_AT_LOW == 40

DEAD_ZONE_AT_HIGH == 1

MOVEMENT_THRESHOLD_AT_LOW == 200

MOVEMENT_THRESHOLD_AT_HIGH == 5

LerpScale == SENSITIVITY_MAX - SENSITIVITY_MIN

\* LerpScale * (atLow + t * (atHigh - atLow)), t = (sensitivity - MIN) / (MAX - MIN)
lerp(atLow, atHigh, sensitivity) ==
    LerpScale * atLow + (sensitivity - SENSITIVITY_MIN) * (atHigh - atLow)

InactivityDetector(config) ==
    LET sensitivity == IF "sensitivity" \in DOMAIN config
                       THEN config.sensitivity ELSE 1
    IN  [duration            |-> config.duration,
         deadZone            |-> lerp(DEAD_ZONE_AT_LOW, DEAD_ZONE_AT_HIGH, sensitivity),
         movementThreshold   |-> lerp(MOVEMENT_THRESHOLD_AT_LOW, MOVEMENT_THRESHOLD_AT_HIGH, sensitivity),
         previousLandmarks   |-> Null,
         lastUpdateTimestamp |-> Null,
         elapsedInactiveMs   |-> 0]

\* The largest r in lo..hi with r * r <= n, by bisection.
RECURSIVE FloorSqrt(_, _, _)
FloorSqrt(n, lo, hi) ==
    IF lo >= hi THEN lo
    ELSE LET mid == (lo + hi + 1) \div 2
         IN  IF mid * mid <= n THEN FloorSqrt(n, mid, hi)
             ELSE FloorSqrt(n, lo, mid - 1)

\* Math.sqrt(dx * dx + dy * dy) in coordinate units.  The frames that come
\* near a dead zone or a movement threshold move along an axis or by a
\* Pythagorean triple, so their root is an integer; any other root is cut to
\* the coordinate unit (0.0001).
Dist(dx, dy) ==
    IF dy = 0 THEN Abs(dx) ELSE IF dx = 0 THEN Abs(dy) ELSE
    LET lo == IF Abs(dx) > Abs(dy) THEN Abs(dx) ELSE Abs(dy)
    IN  FloorSqrt(dx * dx + dy * dy, lo, Abs(dx) + Abs(dy))

\* One landmark pair's term of the score, in coordinate units times VisScale.
ScoreTerm(p, c, deadZone) ==
    LET visibility == IF p.visibility < c.visibility THEN p.visibility ELSE c.visibility
        dist == Dist(c.x - p.x, c.y - p.y)
    IN  IF visibility < VisScale \div 2 THEN 0
        ELSE IF LerpScale * dist < deadZone THEN 0
        ELSE dist * visibility

\* The loop from index i on (for i < prev.length && i < curr.length).
RECURSIVE ScoreFrom(_, _, _, _)
ScoreFrom(i, prev, curr, deadZone) ==
    IF ~(i <= Len(prev) /\ i <= Len(curr)) THEN 0
    ELSE ScoreTerm(prev[i], curr[i], deadZone)
           + ScoreFrom(i + 1, prev, curr, deadZone)

\* Variant: the dead zone is applied to the summed score, not to each point.
computeMovementScore_FilterAfterSum(prev, curr, deadZone) ==
    LET total == ScoreFrom(1, prev, curr, 0)
    IN  IF LerpScale * total < VisScale * deadZone THEN 0 ELSE total

computeMovementScore(prev, curr, deadZone) == ScoreFrom(1, prev, curr, deadZone)

\* Variant: ALERT only once the accumulator exceeds duration.
buildResult_StrictDuration(d) ==
    IF d.elapsedInactiveMs <= 0
    THEN Result(OK, <<>>)
    ELSE IF d.elapsedInactiveMs > d.duration
    THEN Result(ALERT, <<"Inactive for", ToFixed(d.elapsedInactiveMs, 0)>>)
    ELSE Result(WARNING, <<"No movement for", ToFixed(d.elapsedInactiveMs, 0)>>)

buildResult(d) ==
    IF d.elapsedInactiveMs <= 0
    THEN Result(OK, <<>>)
    ELSE IF d.elapsedInactiveMs >= d.duration
    THEN Result(ALERT, <<"Inactive for", ToFixed(d.elapsedInactiveMs, 0)>>)
    ELSE Result(WARNING, <<"No movement for", ToFixed(d.elapsedInactiveMs, 0)>>)

\* movementScore >= this.movementThreshold
IsMovement(d, landmarks) ==
    LerpScale * computeMovementScore(Val(d.previousLandmarks), landmarks, d.deadZone)
        >= VisScale * d.movementThreshold

\* Variant: a frame without landmarks adds its delta to the accumulator.
InactivityUpdate_CountsAbsence(d, landmarks, timestamp) ==
    LET delta == IF d.lastUpdateTimestamp # Null
                 THEN timestamp - Val(d.lastUpdateTimestamp) ELSE 0
    IN  IF landmarks = Null
        THEN LET d1 == [d EXCEPT !.lastUpdateTimestamp = Some(timestamp),
                                 !.elapsedInactiveMs = d.elapsedInactiveMs + delta]
             IN  [d |-> d1, result |-> buildResult(d1)]
        ELSE IF d.previousLandmarks = Null
        THEN [d |-> [d EXCEPT !.previousLandmarks = landmarks,
                              !.lastUpdateTimestamp = Some(timestamp)],
              result |-> Result(OK, <<>>)]
        ELSE LET d1 == [d EXCEPT !.elapsedInactiveMs =
                                     IF IsMovement(d, Val(landmarks))
                                     THEN 0 ELSE d.elapsedInactiveMs + delta,
                                 !.previousLandmarks = landmarks,
                                 !.lastUpdateTimestamp = Some(timestamp)]
             IN  [d |-> d1, result |-> buildResult(d1)]

\* Variant: movement clears the accumulator only while it is below duration.
InactivityUpdate_AlertSurvivesMovement(d, landmarks, timestamp) ==
    IF landmarks = Null
    THEN LET d1 == [d EXCEPT !.lastUpdateTimestamp = Some(timestamp)]
         IN  [d |-> d1, result |-> buildResult(d1)]
    ELSE IF d.previousLandmarks = Null
    THEN [d |-> [d EXCEPT !.previousLandmarks = landmarks,
                          !.lastUpdateTimestamp = Some(timestamp)],
          result |-> Result(OK, <<>>)]
    ELSE LET delta == IF d.lastUpdateTimestamp # Null
                      THEN timestamp - Val(d.lastUpdateTimestamp) ELSE 0
             d1 == [d EXCEPT !.elapsedInactiveMs =
                                 IF IsMovement(d, Val(landmarks))
                                 THEN (IF d.elapsedInactiveMs >= d.duration
                                       THEN d.elapsedInactiveMs ELSE 0)
                                 ELSE d.elapsedInactiveMs + delta,
                             !.previousLandmarks = landmarks,
                             !.lastUpdateTimestamp = Some(timestamp)]
         IN  [d |-> d1, result |-> buildResult(d1)]

InactivityUpdate(d, landmarks, timestamp) ==
    IF landmarks = Null
    THEN LET d1 == [d EXCEPT !.lastUpdateTimestamp = Some(timestamp)]
         IN  [d |-> d1, result |-> buildResult(d1)]
    ELSE IF d.previousLandmarks = Null
    THEN [d |-> [d EXCEPT !.previousLandmarks = landmarks,
                          !.lastUpdateTimestamp = Some(timestamp)],
          result |-> Result(OK, <<>>)]
    ELSE LET delta == IF d.lastUpdateTimestamp # Null
                      THEN timestamp - Val(d.lastUpdateTimestamp) ELSE 0
             d1 == [d EXCEPT !.elapsedInactiveMs =
                                 IF IsMovement(d, Val(landmarks))
                                 THEN 0 ELSE d.elapsedInactiveMs + delta,
                             !.previousLandmarks = landmarks,
                             !.lastUpdateTimestamp = Some(timestamp)]
         IN  [d |-> d1, result |-> buildResult(d1)]

\* Variant: a new sensitivity recomputes the dead zone only.
InactivityConfigure_DeadZoneOnly(d, config) ==
    LET d1 == IF IsNumber(config, "duration")
              THEN [d EXCEPT !.duration = config["duration"].value] ELSE d
    IN  IF IsNumber(config, "sensitivity")
        THEN [d1 EXCEPT
                !.deadZone = lerp(DEAD_ZONE_AT_LOW, DEAD_ZONE_AT_HIGH,
                                  config["sensitivity"].value)]
        ELSE d1

InactivityConfigure(d, config) ==
    LET d1 == IF IsNumber(config, "duration")
              THEN [d EXCEPT !.duration = config["duration"].value] ELSE d
    IN  IF IsNumber(config, "sensitivity")
        THEN [d1 EXCEPT
                !.deadZone = lerp(DEAD_ZONE_AT_LOW, DEAD_ZONE_AT_HIGH,
                                  config["sensitivity"].value),
                !.movementThreshold = lerp(MOVEMENT_THRESHOLD_AT_LOW,
                                           MOVEMENT_THRESHOLD_AT_HIGH,
                                           config["sensitivity"].value)]
        ELSE d1

\* Variant: reset forgets the snapshot and the timestamp but keeps the
\* accumulator.
InactivityReset_KeepsAccumulator(d) ==
    [d EXCEPT !.previousLandmarks = Null, !.lastUpdateTimestamp = Null]

InactivityReset(d) ==
    [d EXCEPT !.previousLandmarks = Null,
              !.lastUpdateTimestamp = Null,
              !.elapsedInactiveMs = 0]

----------------------------------------------------------------------------
(* Zone Detector -- src/unnamed/part_004 *)

ZoneDetector(config) ==
    [breachDuration      |-> config.breachDuration,
     zoneRect            |-> Null,
     outsideElapsedMs    |-> 0,
     lastUpdateTimestamp |-> Null]

\* Variant: the accumulator is cleared only when the rectangle changes.
setZoneRect_SameRectKeeps(d, rect) ==
    IF rect = d.zoneRect THEN d
    ELSE [d EXCEPT !.zoneRect = rect, !.outsideElapsedMs = 0]

\* Variant: setZoneRect stores the rectangle and keeps the accumulator.
setZoneRect_KeepsAccumulator(d, rect) == [d EXCEPT !.zoneRect = rect]

setZoneRect(d, rect) == [d EXCEPT !.zoneRect = rect, !.outsideElapsedMs = 0]

\* hipX = (left.x + right.x) / 2 compared with the bounds, times 2
\* Variant: a hip midpoint on an edge of the rectangle is outside.
checkInside_Exclusive(d, landmarks) ==
    IF d.zoneRect = Null THEN TRUE
    ELSE LET hipX2 == landmarks[LANDMARK.LEFT_HIP].x + landmarks[LANDMARK.RIGHT_HIP].x
             hipY2 == landmarks[LANDMARK.LEFT_HIP].y + landmarks[LANDMARK.RIGHT_HIP].y
             r == Val(d.zoneRect)
         IN  /\ hipX2 > 2 * r.x1
             /\ hipX2 < 2 * r.x2
             /\ hipY2 > 2 * r.y1
             /\ hipY2 < 2 * r.y2

checkInside(d, landmarks) ==
    IF d.zoneRect = Null THEN TRUE
    ELSE LET hipX2 == landmarks[LANDMARK.LEFT_HIP].x + landmarks[LANDMARK.RIGHT_HIP].x
             hipY2 == landmarks[LANDMARK.LEFT_HIP].y + landmarks[LANDMARK.RIGHT_HIP].y
             r == Val(d.zoneRect)
         IN  /\ hipX2 >= 2 * r.x1
             /\ hipX2 <= 2 * r.x2
             /\ hipY2 >= 2 * r.y1
             /\ hipY2 <= 2 * r.y2

\* Variant: without a zone only a frame with landmarks returns early; a frame
\* without landmarks is counted as outside.
ZoneUpdate_NoZoneCounts(d, landmarks, timestamp) ==
    IF d.zoneRect = Null /\ landmarks # Null
    THEN [d |-> [d EXCEPT !.lastUpdateTimestamp = Some(timestamp)],
          result |-> Result(OK, <<"No zone set">>)]
    ELSE LET delta == IF d.lastUpdateTimestamp # Null
                      THEN timestamp - Val(d.lastUpdateTimestamp) ELSE 0
             isInside == IF landmarks # Null
                         THEN checkInside(d, Val(landmarks)) ELSE FALSE
             outside == IF isInside THEN 0 ELSE d.outsideElapsedMs + delta
             d1 == [d EXCEPT !.outsideElapsedMs = outside,
                             !.lastUpdateTimestamp = Some(timestamp)]
         IN  [d |-> d1,
              result |->
                IF isInside \/ outside <= 0
                THEN Result(OK, <<"Inside zone">>)
                ELSE IF outside >= d.breachDuration
                THEN Result(ALERT, <<"Outside zone for", ToFixed(outside, 1)>>)
                ELSE Result(WARNING, <<"Leaving zone", ToFixed(outside, 1)>>)]

\* Variant: the breach is raised only once the accumulator exceeds breachDuration.
ZoneUpdate_StrictBreach(d, landmarks, timestamp) ==
    IF d.zoneRect = Null
    THEN [d |-> [d EXCEPT !.lastUpdateTimestamp = Some(timestamp)],
          result |-> Result(OK, <<"No zone set">>)]
    ELSE LET delta == IF d.lastUpdateTimestamp # Null
                      THEN timestamp - Val(d.lastUpdateTimestamp) ELSE 0
             isInside == IF landmarks # Null
                         THEN checkInside(d, Val(landmarks)) ELSE FALSE
             outside == IF isInside THEN 0 ELSE d.outsideElapsedMs + delta
             d1 == [d EXCEPT !.outsideElapsedMs = outside,
                             !.lastUpdateTimestamp = Some(timestamp)]
         IN  [d |-> d1,
              result |->
                IF isInside \/ outside <= 0
                THEN Result(OK, <<"Inside zone">>)
                ELSE IF outside > d.breachDuration
                THEN Result(ALERT, <<"Outside zone for", ToFixed(outside, 1)>>)
                ELSE Result(WARNING, <<"Leaving zone", ToFixed(outside, 1)>>)]

\* Variant: a frame without landmarks leaves the accumulator as it is.
ZoneUpdate_NullSkipped(d, landmarks, timestamp) ==
    IF d.zoneRect = Null
    THEN [d |-> [d EXCEPT !.lastUpdateTimestamp = Some(timestamp)],
          result |-> Result(OK, <<"No zone set">>)]
    ELSE LET delta == IF d.lastUpdateTimestamp # Null
                      THEN timestamp - Val(d.lastUpdateTimestamp) ELSE 0
             isInside == IF landmarks # Null
                         THEN checkInside(d, Val(landmarks)) ELSE FALSE
             outside == IF isInside THEN 0 ELSE IF landmarks = Null THEN d.outsideElapsedMs
                        ELSE d.outsideElapsedMs + delta
             d1 == [d EXCEPT !.outsideElapsedMs = outside,
                             !.lastUpdateTimestamp = Some(timestamp)]
         IN  [d |-> d1,
              result |->
                IF isInside \/ outside <= 0
                THEN Result(OK, <<"Inside zone">>)
                ELSE IF outside >= d.breachDuration
                THEN Result(ALERT, <<"Outside zone for", ToFixed(outside, 1)>>)
                ELSE Result(WARNING, <<"Leaving zone", ToFixed(outside, 1)>>)]

\* Variant: an update without a zone returns at once and records no timestamp.
ZoneUpdate_NoZoneSkipsTimestamp(d, landmarks, timestamp) ==
    IF d.zoneRect = Null
    THEN [d |-> d, result |-> Result(OK, <<"No zone set">>)]
    ELSE LET delta == IF d.lastUpdateTimestamp # Null
                      THEN timestamp - Val(d.lastUpdateTimestamp) ELSE 0
             isInside == IF landmarks # Null
                         THEN checkInside(d, Val(landmarks)) ELSE FALSE
             outside == IF isInside THEN 0 ELSE d.outsideElapsedMs + delta
             d1 == [d EXCEPT !.outsideElapsedMs = outside,
                             !.lastUpdateTimestamp = Some(timestamp)]
         IN  [d |-> d1,
              result |->
                IF isInside \/ outside <= 0
                THEN Result(OK, <<"Inside zone">>)
                ELSE IF outside >= d.breachDuration
                THEN Result(ALERT, <<"Outside zone for", ToFixed(outside, 1)>>)
                ELSE Result(WARNING, <<"Leaving zone", ToFixed(outside, 1)>>)]

ZoneUpdate(d, landmarks, timestamp) ==
    IF d.zoneRect = Null
    THEN [d |-> [d EXCEPT !.lastUpdateTimestamp = Some(timestamp)],
          result |-> Result(OK, <<"No zone set">>)]
    ELSE LET delta == IF d.lastUpdateTimestamp # Null
                      THEN timestamp - Val(d.lastUpdateTimestamp) ELSE 0
             isInside == IF landmarks # Null
                         THEN checkInside(d, Val(landmarks)) ELSE FALSE
             outside == IF isInside THEN 0 ELSE d.outsideElapsedMs + delta
             d1 == [d EXCEPT !.outsideElapsedMs = outside,
                             !.lastUpdateTimestamp = Some(timestamp)]
         IN  [d |-> d1,
              result |->
                IF isInside \/ outside <= 0
                THEN Result(OK, <<"Inside zone">>)
                ELSE IF outside >= d.breachDuration
                THEN Result(ALERT, <<"Outside zone for", ToFixed(outside, 1)>>)
                ELSE Result(WARNING, <<"Leaving zone", ToFixed(outside, 1)>>)]

ZoneConfigure(d, config) ==
    IF IsNumber(config, "breachDuration")
    THEN [d EXCEPT !.breachDuration = config["breachDuration"].value]
    ELSE d

\* Variant: reset clears the accumulator but keeps the last timestamp.
ZoneReset_KeepsTimestamp(d) == [d EXCEPT !.outsideElapsedMs = 0]

\* Variant: reset also forgets the zone rectangle.
ZoneReset_ClearsZone(d) ==
    [d EXCEPT !.outsideElapsedMs = 0, !.lastUpdateTimestamp = Null,
              !.zoneRect = Null]

ZoneReset(d) == [d EXCEPT !.outsideElapsedMs = 0, !.lastUpdateTimestamp = Null]

----------------------------------------------------------------------------
(* Presence Detector -- src/src/detectors/presence.ts *)

PresenceDetector(config) ==
    [timeout             |-> config.timeout,
     absenceElapsedMs    |-> 0,
     lastUpdateTimestamp |-> Null]

\* Variant: the seconds of the message are rounded to the nearest second.
PresenceUpdate_RoundsSeconds(d, landmarks, timestamp) ==
    LET delta == IF d.lastUpdateTimestamp # Null
                 THEN timestamp - Val(d.lastUpdateTimestamp) ELSE 0
    IN  IF landmarks # Null
        THEN [d |-> [d EXCEPT !.lastUpdateTimestamp = Some(timestamp),
                              !.absenceElapsedMs = 0],
              result |-> Result(OK, <<"Person visible">>)]
        ELSE LET absence == d.absenceElapsedMs + delta
                 d1 == [d EXCEPT !.lastUpdateTimestamp = Some(timestamp),
                                 !.absenceElapsedMs = absence]
             IN  [d |-> d1,
                  result |->
                    IF absence >= d.timeout
                    THEN Result(ALERT, <<"Not seen for", ToFixed(absence, 0)>>)
                    ELSE IF absence > 0
                    THEN Result(WARNING, <<"Not seen for", ToFixed(absence, 0)>>)
                    ELSE Result(OK, <<>>)]

\* Variant: a frame with landmarks returns OK but keeps the accumulator.
PresenceUpdate_KeepsAbsence(d, landmarks, timestamp) ==
    LET delta == IF d.lastUpdateTimestamp # Null
                 THEN timestamp - Val(d.lastUpdateTimestamp) ELSE 0
    IN  IF landmarks # Null
        THEN [d |-> [d EXCEPT !.lastUpdateTimestamp = Some(timestamp)],
              result |-> Result(OK, <<"Person visible">>)]
        ELSE LET absence == d.absenceElapsedMs + delta
                 d1 == [d EXCEPT !.lastUpdateTimestamp = Some(timestamp),
                                 !.absenceElapsedMs = absence]
             IN  [d |-> d1,
                  result |->
                    IF absence >= d.timeout
                    THEN Result(ALERT, <<"Not seen for", FloorSeconds(absence)>>)
                    ELSE IF absence > 0
                    THEN Result(WARNING, <<"Not seen for", FloorSeconds(absence)>>)
                    ELSE Result(OK, <<>>)]

\* Variant: the first update after construction or reset takes its delta
\* from time 0.
PresenceUpdate_FirstDeltaFromZero(d, landmarks, timestamp) ==
    LET delta == IF d.lastUpdateTimestamp # Null
                 THEN timestamp - Val(d.lastUpdateTimestamp) ELSE timestamp
    IN  IF landmarks # Null
        THEN [d |-> [d EXCEPT !.lastUpdateTimestamp = Some(timestamp),
                              !.absenceElapsedMs = 0],
              result |-> Result(OK, <<"Person visible">>)]
        ELSE LET absence == d.absenceElapsedMs + delta
                 d1 == [d EXCEPT !.lastUpdateTimestamp = Some(timestamp),
                                 !.absenceElapsedMs = absence]
             IN  [d |-> d1,
                  result |->
                    IF absence >= d.timeout
                    THEN Result(ALERT, <<"Not seen for", FloorSeconds(absence)>>)
                    ELSE IF absence > 0
                    THEN Result(WARNING, <<"Not seen for", FloorSeconds(absence)>>)
                    ELSE Result(OK, <<>>)]

\* Variant: absence is timed from the first frame without landmarks.
PresenceUpdate_TimedFromFirstAbsence(d, landmarks, timestamp) ==
    LET delta == IF d.lastUpdateTimestamp # Null
                 THEN timestamp - Val(d.lastUpdateTimestamp) ELSE 0
    IN  IF landmarks # Null
        THEN [d |-> [d EXCEPT !.lastUpdateTimestamp = Null,
                              !.absenceElapsedMs = 0],
              result |-> Result(OK, <<"Person visible">>)]
        ELSE LET absence == d.absenceElapsedMs + delta
                 d1 == [d EXCEPT !.lastUpdateTimestamp = Some(timestamp),
                                 !.absenceElapsedMs = absence]
             IN  [d |-> d1,
                  result |->
                    IF absence >= d.timeout
                    THEN Result(ALERT, <<"Not seen for", FloorSeconds(absence)>>)
                    ELSE IF absence > 0
                    THEN Result(WARNING, <<"Not seen for", FloorSeconds(absence)>>)
                    ELSE Result(OK, <<>>)]

PresenceUpdate(d, landmarks, timestamp) ==
    LET delta == IF d.lastUpdateTimestamp # Null
                 THEN timestamp - Val(d.lastUpdateTimestamp) ELSE 0
    IN  IF landmarks # Null
        THEN [d |-> [d EXCEPT !.lastUpdateTimestamp = Some(timestamp),
                              !.absenceElapsedMs = 0],
              result |-> Result(OK, <<"Person visible">>)]
        ELSE LET absence == d.absenceElapsedMs + delta
                 d1 == [d EXCEPT !.lastUpdateTimestamp = Some(timestamp),
                                 !.absenceElapsedMs = absence]
             IN  [d |-> d1,
                  result |->
                    IF absence >= d.timeout
                    THEN Result(ALERT, <<"Not seen for", FloorSeconds(absence)>>)
                    ELSE IF absence > 0
                    THEN Result(WARNING, <<"Not seen for", FloorSeconds(absence)>>)
                    ELSE Result(OK, <<>>)]

\* Variant: a recognized key is stored whatever the type of its value (a
\* string converts to the number 0).
PresenceConfigure_Coerces(d, config) ==
    IF "timeout" \in DOMAIN config
    THEN [d EXCEPT !.timeout = config["timeout"].value]
    ELSE d

PresenceConfigure(d, config) ==
    IF IsNumber(config, "timeout")
    THEN [d EXCEPT !.timeout = config["timeout"].value]
    ELSE d

PresenceReset(d) == [d EXCEPT !.absenceElapsedMs = 0, !.lastUpdateTimestamp = Null]

----------------------------------------------------------------------------
(* The inputs the driver draws from *)

Frames(poses) == {Null} \cup {Some(p) : p \in poses}

\* The frames that show a fallen posture, by construction of the poses.
FallenPoses == { fallenPose(5000, 7000),
                 withVisibility(fallenPose(5000, 7000), 50) }

\* A pose, the pose moved by 0.1 (test I4) and moved by 0.001 (test I8).
InactivityPoses == { standingPose(5000, 5500),
                     shiftPose(standingPose(5000, 5500), 1000, 0),
                     shiftPose(standingPose(5000, 5500), 10, 0) }

\* One landmark of the pose moved by (dx, dy).
moveLandmark(pose, i, dx, dy) ==
    [pose EXCEPT ![i] = lm(pose[i].x + dx, pose[i].y + dy, pose[i].visibility)]

\* Frames around the dead zone of sensitivity 1 (0.004): every landmark moved
\* by 0.003; every landmark moved by (0.003, 0.004), a distance of 0.005; the
\* nose alone moved by 0.03; every landmark moved by 0.1 but seen with
\* visibility 0.49.
ScorePoses == { standingPose(5000, 5500),
                shiftPose(standingPose(5000, 5500), 30, 0),
                shiftPose(standingPose(5000, 5500), 30, 40),
                moveLandmark(standingPose(5000, 5500), LANDMARK.NOSE, 300, 0),
                withVisibility(shiftPose(standingPose(5000, 5500), 1000, 0), 49) }

ZonePoses == { standingPose(5000, 5000),
               standingPose(2000, 5000),
               standingPose(1000, 5000) }

ZoneRects == { [x1 |-> 2000, y1 |-> 2000, x2 |-> 8000, y2 |-> 8000],
               [x1 |-> 0, y1 |-> 0, x2 |-> 1500, y2 |-> 10000] }

PresencePoses == { standingPose(5000, 5500) }

\* Configuration bags: empty, a recognized key with a number, a recognized
\* key with a non-number, an unrecognized key.
Configs(key, values) ==
    {EmptyConfig, key :> NotANumber, "volume" :> Num(1000)}
        \cup {key :> Num(v) : v \in values}

FallConfigs == Configs("holdDuration", HoldDurations)

InactivityConfigs ==
    Configs("duration", InactivityDurations)
        \cup Configs("sensitivity", Sensitivities)

ZoneConfigs == Configs("breachDuration", BreachDurations)

PresenceConfigs == Configs("timeout", Timeouts)

NoResult == Result("none", <<>>)

\* The record of a call: its inputs and result, whether it changed the
\* detector, whether the call before it was a reset ("no", or "clean" /
\* "dirty" as that reset left the detector as it was or changed it), and the
\* status returned by the latest update before it since the last reset
\* ("none" when there was none), whether that update found no zone set, and
\* the timestamp of the latest update of the Presence Detector, this call
\* included, that carried landmarks since its last reset, and whether a
\* configure has given the Inactivity Detector a duration since its latest
\* update.
Call(det, op, landmarks, timestamp, config, rect, result, changed) ==
    [det |-> det, op |-> op, landmarks |-> landmarks, timestamp |-> timestamp,
     config |-> config, rect |-> rect, result |-> result, changed |-> changed,
     afterReset |-> IF last.op # "reset" THEN "no"
                    ELSE IF last.changed THEN "dirty" ELSE "clean",
     prevStatus |-> IF last.op = "update" THEN last.result.status
                    ELSE IF last.op = "reset" THEN "none"
                    ELSE last.prevStatus,
     prevNoZone |-> IF last.op = "update"
                    THEN last.result.message = <<"No zone set">>
                    ELSE IF last.op = "reset" THEN FALSE
                    ELSE last.prevNoZone,
     lastSeen |-> IF det # "presence" THEN Null
                  ELSE IF op = "update" /\ landmarks # Null THEN Some(timestamp)
                  ELSE IF op = "reset" THEN Null
                  ELSE last.lastSeen,
     reconfigured |-> IF det # "inactivity" \/ op = "update" THEN FALSE
                      ELSE IF op = "configure" /\ IsNumber(config, "duration")
                      THEN TRUE
                      ELSE last.reconfigured]

\* The elapsed time of the Fall Detector at time t: t - fallenSince while the
\* timer runs, 0 while it does not.
FallElapsed(d, t) == IF d.fallenSince = Null THEN 0 ELSE t - Val(d.fallenSince)

\* Some update has reached the driven detector since it was constructed or
\* last reset.
UpdatedSinceReset ==
    \/ last.op = "update"
    \/ last.op # "reset" /\ last.prevStatus # "none"

\* The hip midpoint a zone frame was built around: standingPose(hipX, hipY)
\* places the hips at hipX -+ 0.06 and hipY.
HipOf(pose) ==
    CHOOSE h \in {1000, 2000, 5000} \X {5000} : pose = standingPose(h[1], h[2])

\* The point lies in the rectangle, edges included.
HipInside(rect, hip) ==
    /\ rect.x1 <= hip[1] /\ hip[1] <= rect.x2
    /\ rect.y1 <= hip[2] /\ hip[2] <= rect.y2

----------------------------------------------------------------------------
(* The host -- src/src/main.ts, with the module state of the zone overlay   *)
(* (src/unnamed/part_000) and of the alerts (src/unnamed/part_001)          *)

\* The thresholds of the settings object, one value for all four.
Settings(v) ==
    [fallHoldDuration |-> v, inactivityDuration |-> v,
     zoneBreachDuration |-> v, presenceTimeout |-> v]

DefaultSettings == Settings(2000)

HostSettings == {Settings(0), Settings(1000), Settings(2000)}

\* The host before init() has started a camera: no session, no start
\* awaiting, no zone drawn, no status seen by the alerts.  results, logged
\* and requested hold what the latest frame returned, logged and requested;
\* fresh tells that no frame has run since the session started; outsideRun
\* is the time spanned by the latest consecutive frames whose hip midpoint
\* was outside the unchanged zone.  loops counts the renderLoop callbacks
\* that requestAnimationFrame holds.  drawingModeActive, isDrawing and
\* drawStart are the drawing state of the overlay; lastDrag remembers the
\* two ends of the drag that committed the overlay's rectangle.
NewHost(settings) ==
    [settings       |-> settings,
     cameraRunning  |-> FALSE,
     pendingStarts  |-> 0,
     zoneRect       |-> Null,
     previousStatus |-> [d \in Detectors |-> "none"],
     results        |-> [d \in Detectors |-> NoResult],
     logged         |-> [d \in Detectors |-> Null],
     requested      |-> [d \in Detectors |-> FALSE],
     fresh          |-> FALSE,
     outsideRun     |-> Null,
     loops          |-> 0,
     drawingModeActive |-> FALSE,
     isDrawing      |-> FALSE,
     drawStart      |-> Null,
     lastDrag       |-> Null]

----------------------------------------------------------------------------
(* The driver: one detector instance is constructed with some thresholds    *)
(* and then receives any sequence of calls with non-decreasing timestamps;  *)
(* the other three instances stay as constructed.                          *)

Init ==
    /\ focus \in Detectors
    /\ fall \in {FallDetector([holdDuration |-> h]) :
                    h \in IF focus = "fall" THEN HoldDurations ELSE {2000}}
    /\ inactivity \in
          IF focus = "inactivity"
          THEN {InactivityDetector([duration |-> n]) : n \in InactivityDurations}
                 \cup {InactivityDetector([duration |-> n, sensitivity |-> s]) :
                          n \in InactivityDurations, s \in Sensitivities}
          ELSE {InactivityDetector([duration |-> 2000])}
    /\ zone \in {ZoneDetector([breachDuration |-> b]) :
                    b \in IF focus = "zone" THEN BreachDurations ELSE {2000}}
    /\ presence \in {PresenceDetector([timeout |-> n]) :
                        n \in IF focus = "presence" THEN Timeouts ELSE {2000}}
    /\ now = 0
    /\ last = [det |-> "none", op |-> "construct", landmarks |-> Null,
               timestamp |-> 0, config |-> EmptyConfig, rect |-> Null,
               result |-> NoResult, changed |-> FALSE,
               afterReset |-> "no", prevStatus |-> "none",
               prevNoZone |-> FALSE, lastSeen |-> Null,
               reconfigured |-> FALSE]
    /\ fallRunStart = Null
    /\ pairSum = 0
    /\ prevWasLandmark = FALSE
    /\ sawNone = FALSE
    /\ outsideSum = 0
    /\ absenceSum = 0
    /\ deltaSum = 0
    /\ host = NewHost(DefaultSettings)

FallUpdateCall ==
    /\ focus = "fall"
    /\ \E landmarks \in Frames(FallPoses), delta \in Deltas :
          LET timestamp == now + delta
              out == FallUpdate(fall, landmarks, timestamp)
          IN  /\ timestamp <= MaxTime
              /\ fall' = out.d
              /\ now' = timestamp
              /\ last' = Call("fall", "update", landmarks, timestamp,
                              EmptyConfig, Null, out.result,
                    fall' # fall)
              /\ fallRunStart' =
                    IF landmarks # Null /\ Val(landmarks) \in FallenPoses
                    THEN (IF fallRunStart = Null THEN Some(timestamp) ELSE fallRunStart)
                    ELSE Null
    /\ UNCHANGED <<inactivity, zone, presence, focus, pairSum, prevWasLandmark, sawNone>>
    /\ UNCHANGED <<outsideSum, absenceSum>>
    /\ deltaSum' = IF FallElapsed(fall', now') = 0 THEN 0 ELSE deltaSum + (now' - now)
    /\ UNCHANGED host

FallConfigureCall ==
    /\ focus = "fall"
    /\ \E config \in FallConfigs :
          /\ fall' = FallConfigure(fall, config)
          /\ last' = Call("fall", "configure", Null, now, config, Null, NoResult,
                    fall' # fall)
    /\ UNCHANGED <<inactivity, zone, presence, now, focus, fallRunStart,
                   pairSum, prevWasLandmark, sawNone>>
    /\ UNCHANGED <<outsideSum, absenceSum>>
    /\ UNCHANGED deltaSum
    /\ UNCHANGED host

FallResetCall ==
    /\ focus = "fall"
    /\ fall' = FallReset(fall)
    /\ last' = Call("fall", "reset", Null, now, EmptyConfig, Null, NoResult,
                    fall' # fall)
    /\ fallRunStart' = Null
    /\ UNCHANGED <<inactivity, zone, presence, now, focus,
                   pairSum, prevWasLandmark, sawNone>>
    /\ UNCHANGED <<outsideSum, absenceSum>>
    /\ deltaSum' = 0
    /\ UNCHANGED host

InactivityUpdateCall ==
    /\ focus = "inactivity"
    /\ \E landmarks \in Frames(InactivityPoses), delta \in Deltas :
          LET timestamp == now + delta
              out == InactivityUpdate(inactivity, landmarks, timestamp)
              moved == /\ landmarks # Null
                       /\ inactivity.previousLandmarks # Null
                       /\ IsMovement(inactivity, Val(landmarks))
          IN  /\ timestamp <= MaxTime
              /\ inactivity' = out.d
              /\ now' = timestamp
              /\ last' = Call("inactivity", "update", landmarks, timestamp,
                              EmptyConfig, Null, out.result,
                    inactivity' # inactivity)
              /\ pairSum' = IF moved THEN 0
                            ELSE IF landmarks # Null /\ prevWasLandmark
                            THEN pairSum + delta
                            ELSE pairSum
              /\ prevWasLandmark' = (landmarks # Null)
              /\ sawNone' = (sawNone \/ landmarks = Null)
    /\ UNCHANGED <<fall, zone, presence, focus, fallRunStart>>
    /\ UNCHANGED <<outsideSum, absenceSum>>
    /\ deltaSum' = IF inactivity'.elapsedInactiveMs = 0 THEN 0 ELSE deltaSum + (now' - now)
    /\ UNCHANGED host

InactivityConfigureCall ==
    /\ focus = "inactivity"
    /\ \E config \in InactivityConfigs :
          /\ inactivity' = InactivityConfigure(inactivity, config)
          /\ last' = Call("inactivity", "configure", Null, now, config, Null,
                          NoResult,
                    inactivity' # inactivity)
    /\ UNCHANGED <<fall, zone, presence, now, focus, fallRunStart,
                   pairSum, prevWasLandmark, sawNone>>
    /\ UNCHANGED <<outsideSum, absenceSum>>
    /\ UNCHANGED deltaSum
    /\ UNCHANGED host

InactivityResetCall ==
    /\ focus = "inactivity"
    /\ inactivity' = InactivityReset(inactivity)
    /\ last' = Call("inactivity", "reset", Null, now, EmptyConfig, Null,
                    NoResult,
                    inactivity' # inactivity)
    /\ pairSum' = 0
    /\ prevWasLandmark' = FALSE
    /\ sawNone' = FALSE
    /\ UNCHANGED <<fall, zone, presence, now, focus, fallRunStart>>
    /\ UNCHANGED <<outsideSum, absenceSum>>
    /\ deltaSum' = 0
    /\ UNCHANGED host

\* An update of the Inactivity Detector with a frame around the dead zone.
ScoreUpdateCall ==
    /\ focus = "inactivity"
    /\ \E landmarks \in Frames(ScorePoses), delta \in ScoreDeltas :
          LET timestamp == now + delta
              out == InactivityUpdate(inactivity, landmarks, timestamp)
              moved == /\ landmarks # Null
                       /\ inactivity.previousLandmarks # Null
                       /\ IsMovement(inactivity, Val(landmarks))
          IN  /\ timestamp <= MaxTime
              /\ inactivity' = out.d
              /\ now' = timestamp
              /\ last' = Call("inactivity", "update", landmarks, timestamp,
                              EmptyConfig, Null, out.result,
                              inactivity' # inactivity)
              /\ pairSum' = IF moved THEN 0
                            ELSE IF landmarks # Null /\ prevWasLandmark
                            THEN pairSum + delta
                            ELSE pairSum
              /\ prevWasLandmark' = (landmarks # Null)
              /\ sawNone' = (sawNone \/ landmarks = Null)
    /\ UNCHANGED <<fall, zone, presence, focus, fallRunStart,
                   outsideSum, absenceSum>>
    /\ deltaSum' = IF inactivity'.elapsedInactiveMs = 0 THEN 0 ELSE deltaSum + (now' - now)
    /\ UNCHANGED host

ZoneUpdateCall ==
    /\ focus = "zone"
    /\ \E landmarks \in Frames(ZonePoses), delta \in Deltas :
          LET timestamp == now + delta
              out == ZoneUpdate(zone, landmarks, timestamp)
          IN  /\ timestamp <= MaxTime
              /\ zone' = out.d
              /\ now' = timestamp
              /\ last' = Call("zone", "update", landmarks, timestamp,
                              EmptyConfig, Null, out.result,
                    zone' # zone)
              /\ outsideSum' =
                    IF zone.zoneRect = Null THEN outsideSum
                    ELSE IF landmarks # Null
                            /\ HipInside(Val(zone.zoneRect), HipOf(Val(landmarks)))
                    THEN 0
                    ELSE outsideSum + (IF UpdatedSinceReset THEN delta ELSE 0)
    /\ UNCHANGED <<fall, inactivity, presence, focus, fallRunStart,
                   pairSum, prevWasLandmark, sawNone>>
    /\ UNCHANGED absenceSum
    /\ deltaSum' = IF zone'.outsideElapsedMs = 0 THEN 0 ELSE deltaSum + (now' - now)
    /\ UNCHANGED host

ZoneSetZoneRectCall ==
    /\ focus = "zone"
    /\ \E rect \in {Null} \cup {Some(r) : r \in ZoneRects} :
          /\ zone' = setZoneRect(zone, rect)
          /\ last' = Call("zone", "setZoneRect", Null, now, EmptyConfig, rect,
                          NoResult,
                    zone' # zone)
    /\ UNCHANGED <<fall, inactivity, presence, now, focus, fallRunStart,
                   pairSum, prevWasLandmark, sawNone>>
    /\ outsideSum' = 0
    /\ UNCHANGED absenceSum
    /\ deltaSum' = 0
    /\ UNCHANGED host

ZoneConfigureCall ==
    /\ focus = "zone"
    /\ \E config \in ZoneConfigs :
          /\ zone' = ZoneConfigure(zone, config)
          /\ last' = Call("zone", "configure", Null, now, config, Null, NoResult,
                    zone' # zone)
    /\ UNCHANGED <<fall, inactivity, presence, now, focus, fallRunStart,
                   pairSum, prevWasLandmark, sawNone>>
    /\ UNCHANGED <<outsideSum, absenceSum>>
    /\ UNCHANGED deltaSum
    /\ UNCHANGED host

ZoneResetCall ==
    /\ focus = "zone"
    /\ zone' = ZoneReset(zone)
    /\ last' = Call("zone", "reset", Null, now, EmptyConfig, Null, NoResult,
                    zone' # zone)
    /\ UNCHANGED <<fall, inactivity, presence, now, focus, fallRunStart,
                   pairSum, prevWasLandmark, sawNone>>
    /\ outsideSum' = 0
    /\ UNCHANGED absenceSum
    /\ deltaSum' = 0
    /\ UNCHANGED host

PresenceUpdateCall ==
    /\ focus = "presence"
    /\ \E landmarks \in Frames(PresencePoses), delta \in Deltas :
          LET timestamp == now + delta
              out == PresenceUpdate(presence, landmarks, timestamp)
          IN  /\ timestamp <= MaxTime
              /\ presence' = out.d
              /\ now' = timestamp
              /\ last' = Call("presence", "update", landmarks, timestamp,
                              EmptyConfig, Null, out.result,
                    presence' # presence)
              /\ absenceSum' =
                    IF landmarks # Null THEN 0
                    ELSE absenceSum + (IF UpdatedSinceReset THEN delta ELSE 0)
    /\ UNCHANGED <<fall, inactivity, zone, focus, fallRunStart,
                   pairSum, prevWasLandmark, sawNone>>
    /\ UNCHANGED outsideSum
    /\ deltaSum' = IF presence'.absenceElapsedMs = 0 THEN 0 ELSE deltaSum + (now' - now)
    /\ UNCHANGED host

PresenceConfigureCall ==
    /\ focus = "presence"
    /\ \E config \in PresenceConfigs :
          /\ presence' = PresenceConfigure(presence, config)
          /\ last' = Call("presence", "configure", Null, now, config, Null,
                          NoResult,
                    presence' # presence)
    /\ UNCHANGED <<fall, inactivity, zone, now, focus, fallRunStart,
                   pairSum, prevWasLandmark, sawNone>>
    /\ UNCHANGED <<outsideSum, absenceSum>>
    /\ UNCHANGED deltaSum
    /\ UNCHANGED host

PresenceResetCall ==
    /\ focus = "presence"
    /\ presence' = PresenceReset(presence)
    /\ last' = Call("presence", "reset", Null, now, EmptyConfig, Null, NoResult,
                    presence' # presence)
    /\ UNCHANGED <<fall, inactivity, zone, now, focus, fallRunStart,
                   pairSum, prevWasLandmark, sawNone>>
    /\ absenceSum' = 0
    /\ UNCHANGED outsideSum
    /\ deltaSum' = 0
    /\ UNCHANGED host

FallNext == FallUpdateCall \/ FallConfigureCall \/ FallResetCall

InactivityNext ==
    InactivityUpdateCall \/ InactivityConfigureCall \/ InactivityResetCall

ZoneNext ==
    ZoneUpdateCall \/ ZoneSetZoneRectCall \/ ZoneConfigureCall \/ ZoneResetCall

PresenceNext == PresenceUpdateCall \/ PresenceConfigureCall \/ PresenceResetCall

Next ==
    \/ FallUpdateCall
    \/ FallConfigureCall
    \/ FallResetCall
    \/ InactivityUpdateCall
    \/ InactivityConfigureCall
    \/ InactivityResetCall
    \/ ZoneUpdateCall
    \/ ZoneSetZoneRectCall
    \/ ZoneConfigureCall
    \/ ZoneResetCall
    \/ PresenceUpdateCall
    \/ PresenceConfigureCall
    \/ PresenceResetCall

\* Any one of the four instances is driven.
Spec == Init /\ [][Next]_vars

\* The Fall Detector is driven.
InitFall == Init /\ focus = "fall"

SpecFall == InitFall /\ [][FallNext]_vars

\* The Inactivity Detector is driven.
InitInactivity == Init /\ focus = "inactivity"

SpecInactivity == InitInactivity /\ [][InactivityNext]_vars

\* The Inactivity Detector is driven with frames around the dead zone.
ScoreNext == ScoreUpdateCall \/ InactivityConfigureCall \/ InactivityResetCall

SpecScore == InitInactivity /\ [][ScoreNext]_vars

\* The Zone Detector is driven.
InitZone == Init /\ focus = "zone"

SpecZone == InitZone /\ [][ZoneNext]_vars

\* The Presence Detector is driven.
InitPresence == Init /\ focus = "presence"

SpecPresence == InitPresence /\ [][PresenceNext]_vars

----------------------------------------------------------------------------
(* The host loop -- src/src/main.ts *)

\* The order in which renderLoop calls the four updates and the four
\* handleDetectorAlert.
UpdateOrder == <<"fall", "inactivity", "zone", "presence">>

\* The four detector objects and the results their updates have returned in
\* the frame being processed.
World(f, i, z, p) ==
    [fall |-> f, inactivity |-> i, zone |-> z, presence |-> p,
     results |-> [d \in Detectors |-> NoResult]]

\* Variant: the Zone and the Presence Detector keep the time of their last
\* update in one shared variable.
ApplyUpdate_SharedTimestamp(w, det, landmarks, timestamp) ==
    LET out == CASE det = "fall" ->
                      FallUpdate(w.fall, landmarks, timestamp)
                 [] det = "inactivity" ->
                      InactivityUpdate(w.inactivity, landmarks, timestamp)
                 [] det = "zone" ->
                      ZoneUpdate(w.zone, landmarks, timestamp)
                 [] det = "presence" ->
                      PresenceUpdate(w.presence, landmarks, timestamp)
        w1 == [w EXCEPT ![det] = out.d, !.results[det] = out.result]
    IN  IF det \in {"zone", "presence"}
        THEN [w1 EXCEPT !.zone.lastUpdateTimestamp = Some(timestamp),
                        !.presence.lastUpdateTimestamp = Some(timestamp)]
        ELSE w1

\* detector.update(landmarks, timestamp) on one of the four objects.
ApplyUpdate(w, det, landmarks, timestamp) ==
    LET out == CASE det = "fall" ->
                      FallUpdate(w.fall, landmarks, timestamp)
                 [] det = "inactivity" ->
                      InactivityUpdate(w.inactivity, landmarks, timestamp)
                 [] det = "zone" ->
                      ZoneUpdate(w.zone, landmarks, timestamp)
                 [] det = "presence" ->
                      PresenceUpdate(w.presence, landmarks, timestamp)
    IN  [w EXCEPT ![det] = out.d, !.results[det] = out.result]

\* The updates of one frame, called in the given order.
RECURSIVE RunUpdates(_, _, _, _)
RunUpdates(w, order, landmarks, timestamp) ==
    IF order = <<>> THEN w
    ELSE CHOOSE done \in
            {RunUpdates(w1, Tail(order), landmarks, timestamp) :
                w1 \in {ApplyUpdate(w, Head(order), landmarks, timestamp)}} :
            TRUE

\* Variant: every frame whose status is ALERT is logged and sounded.
handleDetectorAlert_EveryAlertFrame(h, detectorName, status, message) ==
    [h EXCEPT !.previousStatus[detectorName] = status,
              !.logged[detectorName] =
                  IF status = ALERT THEN Some(message) ELSE Null,
              !.requested[detectorName] = (status = ALERT)]

\* handleDetectorAlert (src/unnamed/part_001): remember the status; on a
\* transition to ALERT add a log entry and request the alert sound.
handleDetectorAlert(h, detectorName, status, message) ==
    LET prev == h.previousStatus[detectorName]
        toAlert == status = ALERT /\ prev # ALERT
    IN  [h EXCEPT !.previousStatus[detectorName] = status,
                  !.logged[detectorName] =
                      IF toAlert THEN Some(message) ELSE Null,
                  !.requested[detectorName] = toAlert]

\* The four handleDetectorAlert calls of one frame.
RECURSIVE HandleAlerts(_, _, _)
HandleAlerts(h, order, results) ==
    IF order = <<>> THEN h
    ELSE CHOOSE done \in
            {HandleAlerts(h1, Tail(order), results) :
                h1 \in {handleDetectorAlert(h, Head(order),
                                            results[Head(order)].status,
                                            results[Head(order)].message)}} :
            TRUE

\* What the pose model reports for a frame: no person, a person standing in
\* the middle, a person lying at the left; with the hip midpoint the pose was
\* built around.
HostFrames ==
    {[landmarks |-> Null, hip |-> Null],
     [landmarks |-> Some(standingPose(5000, 5000)), hip |-> Some(<<5000, 5000>>)],
     [landmarks |-> Some(fallenPose(1000, 7000)), hip |-> Some(<<1000, 7000>>)]}

\* Variant: the rectangle keeps the corners in the order of the drag.
normalizedRect_AsDragged(start, end) ==
    [x1 |-> start[1], y1 |-> start[2], x2 |-> end[1], y2 |-> end[2]]

\* The rectangle handleMouseUp stores for a drag from start to end (points
\* <<x, y>> in canvas fractions): the corners ordered on each axis.
normalizedRect(start, end) ==
    [x1 |-> SetMin({start[1], end[1]}), y1 |-> SetMin({start[2], end[2]}),
     x2 |-> SetMax({start[1], end[1]}), y2 |-> SetMax({start[2], end[2]})]

\* The drag that draws the zone of the host runs: from the lower right to
\* the upper left corner.
HostDrags == {<<<<8000, 8000>>, <<2000, 2000>>>>}

\* The rectangle drawn on the overlay.
HostRects == {normalizedRect(drag[1], drag[2]) : drag \in HostDrags}

\* The time between two processed video frames.
HostDeltas == {1000}

\* The startCamera calls that can be awaiting at once in the model.
MaxPendingStarts == 2

\* Bound on the calls of startCamera awaiting plus the renderLoop callbacks
\* held by requestAnimationFrame.
MaxLoops == 2

\* The state of the host as the page loads: detectors constructed from the
\* settings, init() done.
InitHost ==
    /\ focus = "host"
    /\ host \in {NewHost(s) : s \in HostSettings}
    /\ fall = FallDetector([holdDuration |-> host.settings.fallHoldDuration])
    /\ inactivity =
          InactivityDetector([duration |-> host.settings.inactivityDuration])
    /\ zone = ZoneDetector([breachDuration |-> host.settings.zoneBreachDuration])
    /\ presence = PresenceDetector([timeout |-> host.settings.presenceTimeout])
    /\ now = 0
    /\ last = [det |-> "none", op |-> "construct", landmarks |-> Null,
               timestamp |-> 0, config |-> EmptyConfig, rect |-> Null,
               result |-> NoResult, changed |-> FALSE,
               afterReset |-> "no", prevStatus |-> "none",
               prevNoZone |-> FALSE, lastSeen |-> Null,
               reconfigured |-> FALSE]
    /\ fallRunStart = Null
    /\ pairSum = 0
    /\ prevWasLandmark = FALSE
    /\ sawNone = FALSE
    /\ outsideSum = 0
    /\ absenceSum = 0
    /\ deltaSum = 0

\* A click on the camera button: stopCamera while a session runs (it also
\* leaves drawing mode), otherwise startCamera, which awaits the camera and
\* the pose model.
CameraButtonClick ==
    /\ focus = "host"
    /\ IF host.cameraRunning
       THEN host' = [host EXCEPT !.cameraRunning = FALSE,
                                 !.drawingModeActive = FALSE]
       ELSE /\ host.pendingStarts < MaxPendingStarts
            /\ host.pendingStarts + host.loops < MaxLoops
            /\ host' = [host EXCEPT !.pendingStarts = @ + 1]
    /\ UNCHANGED <<fall, inactivity, zone, presence, now, focus, last,
                   fallRunStart, pairSum, prevWasLandmark, sawNone,
                   outsideSum, absenceSum, deltaSum>>

\* startCamera resumes after its awaits: it returns if the camera or the pose
\* model failed; otherwise the session starts, the four detectors are reset
\* and renderLoop is handed to requestAnimationFrame.
StartCameraCompletes ==
    /\ focus = "host"
    /\ host.pendingStarts > 0
    /\ \E started \in BOOLEAN :
          IF started
          THEN /\ host' = [host EXCEPT !.pendingStarts = @ - 1,
                                       !.cameraRunning = TRUE,
                                       !.fresh = TRUE,
                                       !.outsideRun = Null,
                                       !.loops = @ + 1]
               /\ fall' = FallReset(fall)
               /\ inactivity' = InactivityReset(inactivity)
               /\ zone' = ZoneReset(zone)
               /\ presence' = PresenceReset(presence)
          ELSE /\ host' = [host EXCEPT !.pendingStarts = @ - 1]
               /\ UNCHANGED <<fall, inactivity, zone, presence>>
    /\ UNCHANGED <<now, focus, last, fallRunStart, pairSum, prevWasLandmark,
                   sawNone, outsideSum, absenceSum, deltaSum>>

\* A renderLoop callback runs.  With no session running it returns and its
\* chain ends.  Otherwise, with a new video frame: push the overlay's
\* rectangle if there is one, update the four detectors, handle the four
\* alerts, and hand renderLoop to requestAnimationFrame again.
renderLoop ==
    /\ focus = "host"
    /\ host.loops > 0
    /\ IF ~host.cameraRunning
       THEN /\ host' = [host EXCEPT !.loops = @ - 1]
            /\ UNCHANGED <<fall, inactivity, zone, presence, now>>
       ELSE
       \E frame \in HostFrames, delta \in HostDeltas :
          LET timestamp == now + delta
              zoneRect == host.zoneRect
              z1 == IF zoneRect # Null THEN setZoneRect(zone, zoneRect) ELSE zone
              outside == /\ zoneRect # Null
                         /\ frame.hip # Null
                         /\ ~HipInside(Val(zoneRect), Val(frame.hip))
          IN  /\ timestamp <= MaxTime
              /\ \E w \in {RunUpdates(World(fall, inactivity, z1, presence),
                                       UpdateOrder, frame.landmarks, timestamp)} :
                    /\ fall' = w.fall
                    /\ inactivity' = w.inactivity
                    /\ zone' = w.zone
                    /\ presence' = w.presence
                    /\ host' = [HandleAlerts(host, UpdateOrder, w.results) EXCEPT
                                  !.results = w.results,
                                  !.fresh = FALSE,
                                  !.outsideRun =
                                      IF ~outside THEN Null
                                      ELSE IF host.outsideRun = Null THEN Some(0)
                                      ELSE Some(Val(host.outsideRun) + delta)]
              /\ now' = timestamp
    /\ UNCHANGED <<focus, last, fallRunStart, pairSum, prevWasLandmark,
                   sawNone, outsideSum, absenceSum, deltaSum>>

\* onSettingsChange: the new settings are applied to the four detectors.
onSettingsChange ==
    /\ focus = "host"
    /\ \E newSettings \in HostSettings :
          /\ host' = [host EXCEPT !.settings = newSettings]
          /\ fall' = FallConfigure(fall,
                "holdDuration" :> Num(newSettings.fallHoldDuration))
          /\ inactivity' = InactivityConfigure(inactivity,
                "duration" :> Num(newSettings.inactivityDuration))
          /\ zone' = ZoneConfigure(zone,
                "breachDuration" :> Num(newSettings.zoneBreachDuration))
          /\ presence' = PresenceConfigure(presence,
                "timeout" :> Num(newSettings.presenceTimeout))
    /\ UNCHANGED <<now, focus, last, fallRunStart, pairSum, prevWasLandmark,
                   sawNone, outsideSum, absenceSum, deltaSum>>

\* A zone is drawn during a session: the Draw Zone button (enabled while a
\* session runs) switches drawing mode on, a drag passes through
\* handleMouseDown and handleMouseUp, and the button switches drawing mode
\* off again.  The overlay stores the rectangle and the zone-change callback
\* of init() passes it to the Zone Detector.
ZoneDrawn ==
    /\ focus = "host"
    /\ host.cameraRunning
    /\ \E drag \in HostDrags :
          LET rect == normalizedRect(drag[1], drag[2])
          IN  /\ host' = [host EXCEPT !.zoneRect = Some(rect),
                                      !.lastDrag = Some(drag),
                                      !.outsideRun = Null]
              /\ zone' = setZoneRect(zone, Some(rect))
    /\ UNCHANGED <<fall, inactivity, presence, now, focus, last,
                   fallRunStart, pairSum, prevWasLandmark, sawNone,
                   outsideSum, absenceSum, deltaSum>>

\* clearZone of the zone overlay: the overlay forgets the rectangle and any
\* drag under way and calls the zone-change callback with null; the callback
\* of init() passes only a rectangle to the Zone Detector.
clearZone ==
    /\ focus \in {"host", "overlay"}
    /\ host.zoneRect # Null \/ host.isDrawing
    /\ host' = [host EXCEPT !.zoneRect = Null,
                            !.isDrawing = FALSE,
                            !.drawStart = Null,
                            !.outsideRun = Null]
    /\ UNCHANGED <<fall, inactivity, zone, presence, now, focus, last,
                   fallRunStart, pairSum, prevWasLandmark, sawNone,
                   outsideSum, absenceSum, deltaSum>>

HostNext ==
    \/ CameraButtonClick
    \/ StartCameraCompletes
    \/ renderLoop
    \/ onSettingsChange
    \/ ZoneDrawn
    \/ clearZone

\* The host drives the four detectors.
SpecHost == InitHost /\ [][HostNext]_vars

----------------------------------------------------------------------------
(* The zone overlay -- src/unnamed/part_000: the mouse handlers of the      *)
(* canvas one by one, during a session of the host.                        *)

\* The points of the canvas, in canvas fractions, where the mouse is pressed
\* and released.
OverlayPoints ==
    {<<2000, 2000>>, <<8000, 2000>>, <<2000, 8000>>, <<8000, 8000>>,
     <<5000, 5000>>}

\* A session has started and no frame has run yet.
InitOverlay ==
    /\ focus = "overlay"
    /\ host = [NewHost(DefaultSettings) EXCEPT !.cameraRunning = TRUE,
                                               !.fresh = TRUE,
                                               !.loops = 1]
    /\ fall = FallDetector([holdDuration |-> host.settings.fallHoldDuration])
    /\ inactivity =
          InactivityDetector([duration |-> host.settings.inactivityDuration])
    /\ zone = ZoneDetector([breachDuration |-> host.settings.zoneBreachDuration])
    /\ presence = PresenceDetector([timeout |-> host.settings.presenceTimeout])
    /\ now = 0
    /\ last = [det |-> "none", op |-> "construct", landmarks |-> Null,
               timestamp |-> 0, config |-> EmptyConfig, rect |-> Null,
               result |-> NoResult, changed |-> FALSE,
               afterReset |-> "no", prevStatus |-> "none",
               prevNoZone |-> FALSE, lastSeen |-> Null,
               reconfigured |-> FALSE]
    /\ fallRunStart = Null
    /\ pairSum = 0
    /\ prevWasLandmark = FALSE
    /\ sawNone = FALSE
    /\ outsideSum = 0
    /\ absenceSum = 0
    /\ deltaSum = 0

\* setDrawingMode, called by the Draw Zone button and by stopCamera.
setDrawingMode ==
    /\ focus = "overlay"
    /\ \E active \in BOOLEAN :
          host' = [host EXCEPT !.drawingModeActive = active]
    /\ UNCHANGED <<fall, inactivity, zone, presence, now, focus, last,
                   fallRunStart, pairSum, prevWasLandmark, sawNone,
                   outsideSum, absenceSum, deltaSum>>

\* handleMouseDown: outside drawing mode it returns at once; in drawing mode
\* it stores the point and starts the drag.
handleMouseDown ==
    /\ focus = "overlay"
    /\ host.drawingModeActive
    /\ \E point \in OverlayPoints :
          host' = [host EXCEPT !.drawStart = Some(point),
                               !.isDrawing = TRUE]
    /\ UNCHANGED <<fall, inactivity, zone, presence, now, focus, last,
                   fallRunStart, pairSum, prevWasLandmark, sawNone,
                   outsideSum, absenceSum, deltaSum>>

\* handleMouseUp: with no drag under way it returns at once; otherwise it
\* stores the normalized rectangle, ends the drag and calls the zone-change
\* callback, which passes the rectangle to the Zone Detector.
handleMouseUp ==
    /\ focus = "overlay"
    /\ host.isDrawing
    /\ host.drawStart # Null
    /\ \E point \in OverlayPoints :
          LET rect == normalizedRect(Val(host.drawStart), point)
          IN  /\ host' = [host EXCEPT !.zoneRect = Some(rect),
                                      !.isDrawing = FALSE,
                                      !.drawStart = Null,
                                      !.lastDrag =
                                          Some(<<Val(host.drawStart), point>>),
                                      !.outsideRun = Null]
              /\ zone' = setZoneRect(zone, Some(rect))
    /\ UNCHANGED <<fall, inactivity, presence, now, focus, last,
                   fallRunStart, pairSum, prevWasLandmark, sawNone,
                   outsideSum, absenceSum, deltaSum>>

OverlayNext ==
    \/ setDrawingMode
    \/ handleMouseDown
    \/ handleMouseUp
    \/ clearZone

\* The user works on the zone overlay.
SpecOverlay == InitOverlay /\ [][OverlayNext]_vars

----------------------------------------------------------------------------
(* Vocabulary of the properties *)

IsUpdateOf(det) == last.det = det /\ last.op = "update"

IsFallenFrame(landmarks) == landmarks # Null /\ Val(landmarks) \in FallenPoses

\* The three-level status of an accumulator against its threshold.
ExpectedStatus(elapsed, threshold) ==
    IF elapsed <= 0 THEN OK
    ELSE IF elapsed < threshold THEN WARNING
    ELSE ALERT

\* A frame whose visible landmarks span no box: none is visible, or all the
\* visible ones lie at one height.
Unboxable(pose) ==
    \A i, j \in {k \in DOMAIN pose : pose[k].visibility >= VisScale \div 2} :
        pose[i].y = pose[j].y

FreshFall == FallDetector([holdDuration |-> fall.holdDuration])

FreshInactivity ==
    [InactivityDetector([duration |-> inactivity.duration])
        EXCEPT !.deadZone = inactivity.deadZone,
               !.movementThreshold = inactivity.movementThreshold]

FreshZone == ZoneDetector([breachDuration |-> zone.breachDuration])

FreshPresence == PresenceDetector([timeout |-> presence.timeout])

SameAsFirstUpdate(d, out) == d = out.d /\ last.result = out.result

----------------------------------------------------------------------------
(* Reset contract *)

\* C1 (as stated): an update that directly follows reset() returns the same
\* status and message, and leaves the same accumulators, as the first update
\* with the same inputs of a freshly constructed detector with the same
\* thresholds.
C1_ResetThenUpdateLikeFresh ==
    (last.op = "update" /\ last.afterReset # "no") =>
        CASE last.det = "fall" ->
               SameAsFirstUpdate(fall,
                   FallUpdate(FreshFall, last.landmarks, last.timestamp))
          [] last.det = "inactivity" ->
               SameAsFirstUpdate(inactivity,
                   InactivityUpdate(FreshInactivity, last.landmarks, last.timestamp))
          [] last.det = "zone" ->
               LET out == ZoneUpdate(FreshZone, last.landmarks, last.timestamp)
               IN  /\ last.result = out.result
                   /\ zone.outsideElapsedMs = out.d.outsideElapsedMs
                   /\ zone.lastUpdateTimestamp = out.d.lastUpdateTimestamp
          [] last.det = "presence" ->
               SameAsFirstUpdate(presence,
                   PresenceUpdate(FreshPresence, last.landmarks, last.timestamp))

\* C1 (amended): an update that directly follows reset() returns the same
\* status and message, and leaves the same state, as the first update with the
\* same inputs of a freshly constructed detector with the same thresholds and,
\* for the Zone Detector, the same zone rectangle pushed by setZoneRect.
C1_ResetThenUpdateLikeFreshWithZone ==
    (last.op = "update" /\ last.afterReset # "no") =>
        CASE last.det = "fall" ->
               SameAsFirstUpdate(fall,
                   FallUpdate(FreshFall, last.landmarks, last.timestamp))
          [] last.det = "inactivity" ->
               SameAsFirstUpdate(inactivity,
                   InactivityUpdate(FreshInactivity, last.landmarks, last.timestamp))
          [] last.det = "zone" ->
               SameAsFirstUpdate(zone,
                   ZoneUpdate(setZoneRect(FreshZone, zone.zoneRect),
                              last.landmarks, last.timestamp))
          [] last.det = "presence" ->
               SameAsFirstUpdate(presence,
                   PresenceUpdate(FreshPresence, last.landmarks, last.timestamp))

\* C1 witness: with a zone set and time accumulated, reset() changed the Zone
\* Detector, and the next update, a frame without landmarks, returned OK
\* "Inside zone".
C1_Witness ==
    /\ IsUpdateOf("zone")
    /\ last.afterReset = "dirty"
    /\ last.landmarks = Null
    /\ last.timestamp > 0
    /\ zone.zoneRect # Null
    /\ last.result = Result(OK, <<"Inside zone">>)

----------------------------------------------------------------------------
(* Fall Detector *)

\* C2: on every frame of a run of consecutive fallen-posture frames whose
\* first frame is at t0, update at t returns WARNING exactly when
\* t - t0 < holdDuration and ALERT exactly when t - t0 >= holdDuration.
C2_FallStatusByElapsed ==
    (IsUpdateOf("fall") /\ fallRunStart # Null) =>
        LET elapsed == last.timestamp - Val(fallRunStart)
        IN  /\ last.result.status = WARNING <=> elapsed < fall.holdDuration
            /\ last.result.status = ALERT <=> elapsed >= fall.holdDuration

\* C2 witness: holdDuration 2000, the frame 2000 ms into the run returned
\* ALERT after a frame that returned WARNING.
C2_Witness ==
    /\ IsUpdateOf("fall")
    /\ fallRunStart # Null
    /\ fall.holdDuration = 2000
    /\ last.timestamp - Val(fallRunStart) = 2000
    /\ last.prevStatus = WARNING
    /\ last.result.status = ALERT

\* C3: an update without landmarks or without a fallen posture returns OK
\* with an empty message and clears the timer start, whatever the state
\* before; the first fallen frame after it starts the timer at its own
\* timestamp, with elapsed 0.
C3_FallInterruptionClearsTimer ==
    [][ (last'.det = "fall" /\ last'.op = "update") =>
          IF ~IsFallenFrame(last'.landmarks)
          THEN /\ last'.result = Result(OK, <<>>)
               /\ fall'.fallenSince = Null
          ELSE fallRunStart = Null =>
                 /\ fall'.fallenSince = Some(last'.timestamp)
                 /\ last'.result.message[2] = 0 ]_vars

\* C3 witness: the detector was Alerting and a frame without a fallen posture
\* returned OK and cleared the timer.
C3_Witness ==
    /\ IsUpdateOf("fall")
    /\ ~IsFallenFrame(last.landmarks)
    /\ last.prevStatus = ALERT
    /\ fall.holdDuration > 0
    /\ fall.fallenSince = Null
    /\ last.result = Result(OK, <<>>)

\* C4 (as stated): a fallen-posture frame seen while the detector is Idle
\* starts the timer at its timestamp and returns WARNING with elapsed 0, for
\* every holdDuration.
C4_FallIdleToConfirming ==
    [][ ( /\ last'.det = "fall" /\ last'.op = "update"
          /\ IsFallenFrame(last'.landmarks)
          /\ fall.fallenSince = Null ) =>
          /\ fall'.fallenSince = Some(last'.timestamp)
          /\ last'.result = Result(WARNING, <<"Possible fall", 0>>) ]_vars

\* C4 (amended): a fallen-posture frame seen while the detector is Idle starts
\* the timer at its timestamp; it returns WARNING with elapsed 0 for every
\* holdDuration > 0, and ALERT with elapsed 0 when holdDuration <= 0.
C4_FallIdleToConfirmingPositiveHold ==
    [][ ( /\ last'.det = "fall" /\ last'.op = "update"
          /\ IsFallenFrame(last'.landmarks)
          /\ fall.fallenSince = Null ) =>
          /\ fall'.fallenSince = Some(last'.timestamp)
          /\ last'.result =
                IF fall'.holdDuration > 0
                THEN Result(WARNING, <<"Possible fall", 0>>)
                ELSE Result(ALERT, <<"Fall detected", 0>>) ]_vars

\* C4 witness: after an update that returned OK, a fallen frame at a later
\* time started the timer at its own timestamp and returned WARNING.
C4_Witness ==
    /\ IsUpdateOf("fall")
    /\ IsFallenFrame(last.landmarks)
    /\ last.prevStatus = OK
    /\ last.timestamp > 0
    /\ fall.fallenSince = Some(last.timestamp)
    /\ last.result = Result(WARNING, <<"Possible fall", 0>>)

\* C5: on every fallen frame of a run the timer start is the timestamp of the
\* run's first frame and the reported elapsed is the current timestamp minus
\* it; a later frame of the run, also one after the flip to ALERT, leaves the
\* timer start as it is, and elapsed does not decrease.
C5_FallTimerKeptAcrossRun ==
    [][ (last'.det = "fall" /\ last'.op = "update" /\ fallRunStart' # Null) =>
          /\ fall'.fallenSince = fallRunStart'
          /\ last'.result.message[2] =
                ToFixed(last'.timestamp - Val(fallRunStart'), 1)
          /\ fallRunStart # Null =>
                /\ fall'.fallenSince = fall.fallenSince
                /\ last'.timestamp - Val(fall'.fallenSince)
                     >= now - Val(fall.fallenSince) ]_vars

\* C5 witness: a fallen frame after the frame that raised the ALERT; the
\* timer still starts at the run's first frame and elapsed has grown past
\* holdDuration.
C5_Witness ==
    /\ IsUpdateOf("fall")
    /\ fallRunStart # Null
    /\ last.prevStatus = ALERT
    /\ last.result.status = ALERT
    /\ fall.holdDuration > 0
    /\ fall.fallenSince = fallRunStart
    /\ last.timestamp - Val(fallRunStart) > fall.holdDuration

\* C6: a frame in which no landmark has visibility >= 0.5, or whose visible
\* landmarks span a box of height <= 0, fails the posture test: update
\* returns OK with an empty message and no timer runs after it.
C6_FallUnboxableFrameIsOK ==
    (IsUpdateOf("fall") /\ last.landmarks # Null /\ Unboxable(Val(last.landmarks))) =>
        /\ last.result = Result(OK, <<>>)
        /\ fall.fallenSince = Null

\* C6 witness: while Confirming, the fallen pose seen with every visibility
\* below 0.5 returned OK and stopped the timer.
C6_Witness ==
    /\ IsUpdateOf("fall")
    /\ last.landmarks = Some(withVisibility(fallenPose(5000, 7000), 49))
    /\ last.prevStatus = WARNING
    /\ last.result = Result(OK, <<>>)
    /\ fall.fallenSince = Null

----------------------------------------------------------------------------
(* Inactivity Detector *)

\* C7: over landmark frames only, the accumulator is the sum of the
\* frame-to-frame deltas since the last movement (0 at the first frame), and
\* update returns OK when it is 0, WARNING when 0 < accumulator < duration,
\* ALERT when it is positive and >= duration.
C7_InactivityStatusByAccumulator ==
    (IsUpdateOf("inactivity") /\ ~sawNone) =>
        /\ inactivity.elapsedInactiveMs = pairSum
        /\ last.result.status = ExpectedStatus(pairSum, inactivity.duration)

\* C7 witness: duration 2000, no frame without landmarks, the frame that
\* brings the motionless time to 2000 ms returned ALERT after a WARNING.
C7_Witness ==
    /\ IsUpdateOf("inactivity")
    /\ ~sawNone
    /\ inactivity.duration = 2000
    /\ pairSum = 2000
    /\ last.prevStatus = WARNING
    /\ last.result.status = ALERT

\* C8: update(None, t) leaves the accumulator and the stored previous
\* landmarks (and the thresholds) as they are; it only records t as the
\* last-update timestamp.
C8_InactivityNoneOnlyRecordsTime ==
    [][ (last'.det = "inactivity" /\ last'.op = "update" /\ last'.landmarks = Null) =>
          inactivity' = [inactivity EXCEPT
                            !.lastUpdateTimestamp = Some(last'.timestamp)] ]_vars

\* C8 witness: with inactivity accumulated and a previous pose stored, a
\* frame without landmarks arrived later than the previous update.
C8_Witness ==
    /\ IsUpdateOf("inactivity")
    /\ last.landmarks = Null
    /\ last.changed
    /\ inactivity.elapsedInactiveMs > 0
    /\ inactivity.previousLandmarks # Null
    /\ inactivity.lastUpdateTimestamp = Some(last.timestamp)

\* C9 (as stated): after any mix of frames without landmarks and motionless
\* landmark frames the accumulator is the sum of the deltas between
\* consecutive landmark frames only.
C9_InactivityOnlyLandmarkPairsCount ==
    IsUpdateOf("inactivity") => inactivity.elapsedInactiveMs = pairSum

\* C10: a landmark frame, other than the first, whose movement score against
\* the previous landmark frame is >= movementThreshold sets the accumulator
\* to 0 and returns OK, whatever was accumulated; every landmark frame
\* overwrites the previous landmarks and the last-update timestamp.
C10_InactivityMovementResets ==
    [][ (last'.det = "inactivity" /\ last'.op = "update" /\ last'.landmarks # Null) =>
          /\ inactivity'.previousLandmarks = last'.landmarks
          /\ inactivity'.lastUpdateTimestamp = Some(last'.timestamp)
          /\ ( /\ inactivity.previousLandmarks # Null
               /\ IsMovement(inactivity, Val(last'.landmarks)) ) =>
                /\ inactivity'.elapsedInactiveMs = 0
                /\ last'.result = Result(OK, <<>>) ]_vars

\* C10 witness: the previous update returned ALERT (duration 2000) and a
\* frame moved by 0.1 returned OK with the accumulator at 0.
C10_Witness ==
    /\ IsUpdateOf("inactivity")
    /\ last.landmarks # Null
    /\ last.prevStatus = ALERT
    /\ inactivity.duration = 2000
    /\ inactivity.elapsedInactiveMs = 0
    /\ last.result = Result(OK, <<>>)

\* The visibility weight of a landmark pair and whether the pair counts.
PairWeight(p, c) ==
    IF p.visibility < c.visibility THEN p.visibility ELSE c.visibility

PairDist(p, c) == Dist(c.x - p.x, c.y - p.y)

PairContributes(p, c, deadZone) ==
    /\ 2 * PairWeight(p, c) >= VisScale
    /\ LerpScale * PairDist(p, c) >= deadZone

RECURSIVE SumOver(_, _)
SumOver(S, f) ==
    IF S = {} THEN 0
    ELSE LET x == CHOOSE y \in S : TRUE
         IN  f[x] + SumOver(S \ {x}, f)

\* The score as the sum, over the pairs that count, of distance times weight.
ContributionSum(prev, curr, deadZone) ==
    LET both == DOMAIN prev \cap DOMAIN curr
    IN  SumOver({i \in both : PairContributes(prev[i], curr[i], deadZone)},
                [i \in both |-> PairDist(prev[i], curr[i]) * PairWeight(prev[i], curr[i])])

\* C11: on a landmark frame other than the first, the movement score is the
\* sum over the landmark pairs with min(prev visibility, curr visibility)
\* >= 0.5 and own displacement >= the dead zone: the frame resets the
\* accumulator exactly when that sum reaches movementThreshold, and a frame
\* in which every landmark moves by less than the dead zone has score 0 and
\* adds its delta to the accumulator.
C11_ScoreFiltersPerPoint ==
    [][ ( /\ last'.det = "inactivity" /\ last'.op = "update"
          /\ last'.landmarks # Null
          /\ inactivity.previousLandmarks # Null ) =>
          LET prev == Val(inactivity.previousLandmarks)
              curr == Val(last'.landmarks)
              score == ContributionSum(prev, curr, inactivity.deadZone)
              counted == inactivity.elapsedInactiveMs
                           + (last'.timestamp - Val(inactivity.lastUpdateTimestamp))
          IN  /\ inactivity'.elapsedInactiveMs =
                    IF LerpScale * score >= VisScale * inactivity.movementThreshold
                    THEN 0 ELSE counted
              /\ (\A i \in DOMAIN prev :
                     LerpScale * PairDist(prev[i], curr[i]) < inactivity.deadZone) =>
                    /\ score = 0
                    /\ inactivity'.elapsedInactiveMs = counted ]_vars

\* C11 witness: at sensitivity 1 a frame in which all landmarks moved by
\* 0.003, less than the dead zone 0.004, was counted as inactivity: the
\* accumulator reached duration and update returned ALERT after a WARNING.
C11_Witness ==
    /\ IsUpdateOf("inactivity")
    /\ last.landmarks = Some(shiftPose(standingPose(5000, 5500), 30, 0))
    /\ inactivity.deadZone = LerpScale * DEAD_ZONE_AT_LOW
    /\ inactivity.duration = 2000
    /\ ~sawNone
    /\ last.prevStatus = WARNING
    /\ last.result.status = ALERT
    /\ inactivity.elapsedInactiveMs = 2000

\* The interpolated tunable at sensitivity s, times LerpScale.
Interpolated(atLow, atHigh, s) ==
    LerpScale * atLow - (s - SENSITIVITY_MIN) * (atLow - atHigh)

C13_InactivityMessageFloors ==
    (IsUpdateOf("inactivity") /\ last.result.status \in {WARNING, ALERT}) =>
        last.result.message[2] = inactivity.elapsedInactiveMs \div 1000

----------------------------------------------------------------------------
(* Zone Detector *)

IsHipOutsideFrame(landmarks) ==
    /\ zone.zoneRect # Null
    /\ landmarks # Null
    /\ ~HipInside(Val(zone.zoneRect), HipOf(Val(landmarks)))

\* C14: while no zone rectangle is set (initially, or after
\* setZoneRect(None)), every update returns OK, for a frame with or without
\* landmarks at any timestamp, and leaves the outside-accumulator as it was.
C14_ZoneNoRectAlwaysOK ==
    [][ (last'.det = "zone" /\ last'.op = "update" /\ zone.zoneRect = Null) =>
          /\ last'.result.status = OK
          /\ zone'.outsideElapsedMs = zone.outsideElapsedMs ]_vars

\* C14 witness: the zone was removed after an ALERT, and a later frame
\* without landmarks returned OK with nothing accumulated.
C14_Witness ==
    /\ IsUpdateOf("zone")
    /\ zone.zoneRect = Null
    /\ last.landmarks = Null
    /\ last.prevStatus = ALERT
    /\ last.changed
    /\ last.result.status = OK
    /\ zone.outsideElapsedMs = 0

\* C15: with a zone set, a frame whose hip midpoint lies in the rectangle,
\* its edges included, sets the outside-accumulator to 0 and returns OK,
\* whatever was accumulated before.
C15_ZoneInsideResets ==
    ( /\ IsUpdateOf("zone")
      /\ zone.zoneRect # Null
      /\ last.landmarks # Null
      /\ HipInside(Val(zone.zoneRect), HipOf(Val(last.landmarks))) ) =>
        /\ zone.outsideElapsedMs = 0
        /\ last.result.status = OK

\* C15 witness: after an ALERT, a frame with the hip midpoint exactly on the
\* left edge of the zone (x = x1 = 0.2) returned OK.
C15_Witness ==
    /\ IsUpdateOf("zone")
    /\ zone.zoneRect # Null
    /\ last.landmarks # Null
    /\ HipOf(Val(last.landmarks))[1] = Val(zone.zoneRect).x1
    /\ last.prevStatus = ALERT
    /\ zone.breachDuration > 0
    /\ zone.outsideElapsedMs = 0
    /\ last.result.status = OK

\* C16: with a zone set, on a frame whose hip midpoint is outside it the
\* accumulator is the sum of the deltas of the frames seen outside since the
\* zone was set (or the person was last inside), and update returns OK while
\* it is 0, WARNING while 0 < accumulator < breachDuration, ALERT once it is
\* positive and >= breachDuration.
C16_ZoneStatusByAccumulator ==
    (IsUpdateOf("zone") /\ IsHipOutsideFrame(last.landmarks)) =>
        /\ zone.outsideElapsedMs = outsideSum
        /\ last.result.status = ExpectedStatus(outsideSum, zone.breachDuration)

\* C16 witness: breachDuration 2000, the outside frame that brings the time
\* outside to 2000 ms returned ALERT after a WARNING.
C16_Witness ==
    /\ IsUpdateOf("zone")
    /\ IsHipOutsideFrame(last.landmarks)
    /\ zone.breachDuration = 2000
    /\ outsideSum = 2000
    /\ last.prevStatus = WARNING
    /\ last.result.status = ALERT

\* C17: with a zone set, update(None, t) does exactly what a frame with the
\* hip midpoint outside the zone does: it adds the delta since the last update
\* to the outside-accumulator, and the status follows the accumulator to
\* WARNING and ALERT.
C17_ZoneNoneIsOutside ==
    [][ ( /\ last'.det = "zone" /\ last'.op = "update"
          /\ last'.landmarks = Null
          /\ zone.zoneRect # Null ) =>
          /\ zone'.outsideElapsedMs =
                zone.outsideElapsedMs
                  + (IF UpdatedSinceReset THEN last'.timestamp - now ELSE 0)
          /\ last'.result.status =
                ExpectedStatus(zone'.outsideElapsedMs, zone'.breachDuration)
          /\ \A pose \in ZonePoses :
                ~HipInside(Val(zone.zoneRect), HipOf(pose)) =>
                    ZoneUpdate(zone, Some(pose), last'.timestamp)
                        = [d |-> zone', result |-> last'.result] ]_vars

\* C17 witness: breachDuration 2000, a frame without landmarks raised the
\* ALERT after a WARNING.
C17_Witness ==
    /\ IsUpdateOf("zone")
    /\ last.landmarks = Null
    /\ zone.zoneRect # Null
    /\ zone.breachDuration = 2000
    /\ last.prevStatus = WARNING
    /\ last.result.status = ALERT
    /\ zone.outsideElapsedMs >= 2000

\* C18: every call of setZoneRect, with a new rectangle, the same rectangle
\* or None, stores the rectangle, sets the outside-accumulator to 0 and
\* leaves the last-update timestamp and breachDuration as they were.
C18_SetZoneRectClearsAccumulator ==
    [][ (last'.det = "zone" /\ last'.op = "setZoneRect") =>
          zone' = [zone EXCEPT !.zoneRect = last'.rect,
                               !.outsideElapsedMs = 0] ]_vars

\* C18 witness: after an ALERT, setZoneRect with a rectangle cleared the
\* accumulated time and kept the timestamp of the last update.
C18_Witness ==
    /\ last.det = "zone" /\ last.op = "setZoneRect"
    /\ last.rect # Null
    /\ last.prevStatus = ALERT
    /\ last.changed
    /\ zone.breachDuration > 0
    /\ zone.outsideElapsedMs = 0
    /\ zone.lastUpdateTimestamp = Some(now)
    /\ now > 0

----------------------------------------------------------------------------
(* Presence Detector *)

\* C19: on a frame without landmarks the accumulator is the sum of the deltas
\* of the frames without landmarks since the last frame with landmarks;
\* update returns WARNING exactly while 0 < accumulator < timeout and ALERT
\* exactly once accumulator >= timeout, and in both the message reports
\* floor(accumulator / 1000) seconds.
C19_PresenceStatusByAbsence ==
    (IsUpdateOf("presence") /\ last.landmarks = Null) =>
        /\ presence.absenceElapsedMs = absenceSum
        /\ last.result.status = WARNING <=>
              (0 < absenceSum /\ absenceSum < presence.timeout)
        /\ last.result.status = ALERT <=> absenceSum >= presence.timeout
        /\ last.result.status \in {WARNING, ALERT} =>
              last.result.message = <<"Not seen for", absenceSum \div 1000>>

\* C19 witness: timeout 2000, the frame that brings the absence to 2500 ms
\* returned ALERT "Not seen for 2s" after a WARNING.
C19_Witness ==
    /\ IsUpdateOf("presence")
    /\ last.landmarks = Null
    /\ presence.timeout = 2000
    /\ absenceSum = 2500
    /\ last.prevStatus = WARNING
    /\ last.result = Result(ALERT, <<"Not seen for", 2>>)

\* C20: an update with landmarks sets the absence accumulator to 0 and returns
\* OK, whatever was accumulated before; on a frame without landmarks the
\* accumulator holds only the absence since the last frame with landmarks.
C20_PresenceReappearanceResets ==
    IsUpdateOf("presence") =>
        IF last.landmarks # Null
        THEN /\ presence.absenceElapsedMs = 0
             /\ last.result.status = OK
        ELSE presence.absenceElapsedMs = absenceSum

\* C20 witness: after an ALERT (timeout 2000) a frame with landmarks returned
\* OK with the accumulator at 0.
C20_Witness ==
    /\ IsUpdateOf("presence")
    /\ last.landmarks # Null
    /\ last.prevStatus = ALERT
    /\ presence.timeout = 2000
    /\ presence.absenceElapsedMs = 0
    /\ last.result.status = OK

\* C21: whenever the absence accumulator is 0 after an update of the Presence
\* Detector, that update returned OK, and for a frame without landmarks the
\* message is empty, for every configured timeout.
C21_PresenceZeroAccumulatorIsOK ==
    (IsUpdateOf("presence") /\ presence.absenceElapsedMs = 0) =>
        /\ last.result.status = OK
        /\ last.landmarks = Null => last.result.message = <<>>

----------------------------------------------------------------------------
(* Configure contract *)

\* The keys the four detectors recognize.
RecognizedKeys ==
    {"holdDuration", "duration", "sensitivity", "breachDuration", "timeout"}

\* A bag that is empty or holds only unrecognized keys and recognized keys
\* with non-number values.
IgnoredConfig(config) == \A k \in RecognizedKeys : ~IsNumber(config, k)

\* The result and new state of the next update of the driven detector one
\* frame interval later, for every frame of the driver (for the Inactivity
\* Detector: no landmarks, and the standing pose).
NextUpdates(f, i, z, p) ==
    CASE focus = "fall" ->
            [x \in Frames(FallPoses) |-> FallUpdate(f, x, now + 500)]
      [] focus = "inactivity" ->
            [x \in {Null, Some(standingPose(5000, 5500))} |->
                InactivityUpdate(i, x, now + 500)]
      [] focus = "zone" ->
            [x \in Frames(ZonePoses) |-> ZoneUpdate(z, x, now + 500)]
      [] focus = "presence" ->
            [x \in Frames(PresencePoses) |-> PresenceUpdate(p, x, now + 500)]

\* C22: configure with an empty bag, with unrecognized keys or with a
\* recognized key holding a non-number changes no detector state, and the
\* next update of the configured detector returns the same result and leaves
\* the same state as it would have without the call.
C22_IgnoredConfigureChangesNothing ==
    [][(last'.op = "configure" /\ IgnoredConfig(last'.config)) =>
          /\ fall' = fall
          /\ inactivity' = inactivity
          /\ zone' = zone
          /\ presence' = presence
          /\ NextUpdates(fall', inactivity', zone', presence')
                = NextUpdates(fall, inactivity, zone, presence)]_vars

\* C22 witness: configure({timeout: <a string>}) reached a Presence Detector
\* that was in WARNING with 1000 ms of absence and left it as it was.
C22_Witness ==
    /\ last.det = "presence"
    /\ last.op = "configure"
    /\ last.config = ("timeout" :> NotANumber)
    /\ last.prevStatus = WARNING
    /\ presence.absenceElapsedMs = 1000
    /\ presence.timeout = 2000
    /\ ~last.changed

\* C23: configure with a numeric threshold stores that threshold (for the
\* sensitivity of the Inactivity Detector, the two tunables derived from it)
\* and leaves every other field as it was: the running timer or accumulator,
\* the previous-frame snapshot, the last-update timestamp, the zone rectangle
\* and the thresholds the bag does not name.
C23_NumericConfigureChangesOnlyThreshold ==
    [][(last'.op = "configure" /\ ~IgnoredConfig(last'.config)) =>
          LET c == last'.config
          IN  /\ fall'.fallenSince = fall.fallenSince
              /\ IF IsNumber(c, "holdDuration") /\ last'.det = "fall"
                 THEN fall'.holdDuration = c["holdDuration"].value
                 ELSE fall'.holdDuration = fall.holdDuration
              /\ inactivity'.elapsedInactiveMs = inactivity.elapsedInactiveMs
              /\ inactivity'.previousLandmarks = inactivity.previousLandmarks
              /\ inactivity'.lastUpdateTimestamp = inactivity.lastUpdateTimestamp
              /\ IF IsNumber(c, "duration") /\ last'.det = "inactivity"
                 THEN inactivity'.duration = c["duration"].value
                 ELSE inactivity'.duration = inactivity.duration
              /\ IF IsNumber(c, "sensitivity") /\ last'.det = "inactivity"
                 THEN /\ inactivity'.deadZone =
                            Interpolated(DEAD_ZONE_AT_LOW, DEAD_ZONE_AT_HIGH,
                                         c["sensitivity"].value)
                      /\ inactivity'.movementThreshold =
                            Interpolated(MOVEMENT_THRESHOLD_AT_LOW,
                                         MOVEMENT_THRESHOLD_AT_HIGH,
                                         c["sensitivity"].value)
                 ELSE /\ inactivity'.deadZone = inactivity.deadZone
                      /\ inactivity'.movementThreshold =
                            inactivity.movementThreshold
              /\ zone'.outsideElapsedMs = zone.outsideElapsedMs
              /\ zone'.lastUpdateTimestamp = zone.lastUpdateTimestamp
              /\ zone'.zoneRect = zone.zoneRect
              /\ IF IsNumber(c, "breachDuration") /\ last'.det = "zone"
                 THEN zone'.breachDuration = c["breachDuration"].value
                 ELSE zone'.breachDuration = zone.breachDuration
              /\ presence'.absenceElapsedMs = presence.absenceElapsedMs
              /\ presence'.lastUpdateTimestamp = presence.lastUpdateTimestamp
              /\ IF IsNumber(c, "timeout") /\ last'.det = "presence"
                 THEN presence'.timeout = c["timeout"].value
                 ELSE presence'.timeout = presence.timeout]_vars

\* C23 witness: configure({holdDuration: 1000}) reached a Fall Detector whose
\* timer was running (WARNING under hold duration 2000) and changed the hold
\* duration while the timer kept its start.
C23_Witness ==
    /\ last.det = "fall"
    /\ last.op = "configure"
    /\ last.config = ("holdDuration" :> Num(1000))
    /\ last.prevStatus = WARNING
    /\ last.changed
    /\ fall.holdDuration = 1000
    /\ fall.fallenSince # Null
    /\ Val(fall.fallenSince) < now

----------------------------------------------------------------------------
(* Accumulators *)

\* The accumulated elapsed time of the driven detector.
Accumulated ==
    CASE focus = "fall"       -> FallElapsed(fall, now)
      [] focus = "inactivity" -> inactivity.elapsedInactiveMs
      [] focus = "zone"       -> zone.outsideElapsedMs
      [] focus = "presence"   -> presence.absenceElapsedMs

\* C24: under any sequence of update / configure / setZoneRect / reset calls
\* with non-decreasing timestamps, the accumulated elapsed time of a detector
\* (fall elapsed, inactivity accumulator, outside accumulator, absence
\* accumulator) never exceeds the sum of the deltas between consecutive
\* updates since the accumulator was last set to zero, and is never negative.
C24_AccumulatorBoundedByDeltas ==
    /\ 0 <= Accumulated
    /\ Accumulated <= deltaSum

\* C24 witness: an Inactivity Detector whose accumulator paused over frames
\* without landmarks holds 1000 ms while 2000 ms of deltas have passed since
\* it was last zero.
C24_Witness ==
    /\ focus = "inactivity"
    /\ last.op = "update"
    /\ inactivity.elapsedInactiveMs = 1000
    /\ deltaSum = 2000

----------------------------------------------------------------------------
(* Zone Detector: a zone set after updates without one *)

\* C29: updates made while no zone is set record the last-update timestamp:
\* when a zone is set after such an update, the accumulator starts at 0 and
\* the first update with the subject not inside adds to it only the delta
\* since the update immediately before, whatever time has passed since
\* construction, and reports the status of that delta.
C29_ZoneSetAfterNoZoneUpdates ==
    [][(/\ last.op = "setZoneRect"
        /\ last.rect # Null
        /\ last.prevNoZone
        /\ last'.op = "update"
        /\ ~(/\ last'.landmarks # Null
             /\ HipInside(Val(last.rect), HipOf(Val(last'.landmarks))))) =>
          /\ zone.lastUpdateTimestamp = Some(now)
          /\ zone.outsideElapsedMs = 0
          /\ zone'.outsideElapsedMs = now' - now
          /\ last'.result.status =
                ExpectedStatus(now' - now, zone.breachDuration)]_vars

\* C29 witness: updates without a zone ran until 2000 ms, then a zone was set
\* and the update at 2500 ms with the subject outside left 500 ms in the
\* accumulator and returned WARNING under a breach duration of 2000 ms.
C29_Witness ==
    /\ IsUpdateOf("zone")
    /\ last.prevNoZone
    /\ last.prevStatus = OK
    /\ zone.zoneRect # Null
    /\ zone.breachDuration = 2000
    /\ now = 2500
    /\ zone.outsideElapsedMs = 500
    /\ last.result.status = WARNING

----------------------------------------------------------------------------
(* The host *)

\* Every order of the four updates.
Orders ==
    {o \in [1..4 -> Detectors] : \A i, j \in 1..4 : o[i] = o[j] => i = j}

IsFrameStep == now' # now

\* C26: in every frame and for each detector name, handleDetectorAlert adds a
\* log entry (with the message of the result) and requests the alert sound
\* exactly when the status is ALERT and the status handed to the previous
\* call for that name was OK, WARNING or none; a frame whose previous status
\* was already ALERT adds no entry and requests no sound.
C26_AlertOneShot ==
    [][IsFrameStep =>
          \A det \in Detectors :
              LET toAlert == /\ host'.results[det].status = ALERT
                             /\ host.results[det].status # ALERT
              IN  /\ host'.requested[det] <=> toAlert
                  /\ host'.logged[det] =
                        IF toAlert THEN Some(host'.results[det].message)
                        ELSE Null]_vars

\* C26 witness: a frame in which the presence went to ALERT and was logged
\* and sounded, while the inactivity stayed in ALERT and was not.
C26_Witness ==
    /\ host.results["presence"].status = ALERT
    /\ host.logged["presence"] = Some(host.results["presence"].message)
    /\ host.requested["presence"]
    /\ host.previousStatus["presence"] = ALERT
    /\ host.results["inactivity"].status = ALERT
    /\ host.logged["inactivity"] = Null
    /\ ~host.requested["inactivity"]

\* C27: in the host loop, once the frames in which the hip midpoint has been
\* outside the unchanged zone span at least breachDuration, the Zone
\* Detector returns ALERT, and WARNING or ALERT on every frame of the run
\* after its first.
C27_HostZoneBreachAlerts ==
    [][(/\ IsFrameStep
        /\ host'.outsideRun # Null
        /\ Val(host'.outsideRun) > 0) =>
          IF Val(host'.outsideRun) >= zone'.breachDuration
          THEN host'.results["zone"].status = ALERT
          ELSE host'.results["zone"].status \in {WARNING, ALERT}]_vars

\* C28: after the overlay's zone has been cleared the Zone Detector holds no
\* rectangle, and every frame processed while the overlay has no zone
\* returns OK for the zone.
C28_ClearedZoneReachesDetector ==
    [][host'.zoneRect = Null =>
          /\ zone'.zoneRect = Null
          /\ IsFrameStep => host'.results["zone"].status = OK]_vars

\* The four detectors as constructed anew with the thresholds, the tunables
\* and the zone rectangle in force for the next frame.
FreshWorld ==
    World(FreshFall, FreshInactivity,
          [FreshZone EXCEPT !.zoneRect = IF host.zoneRect # Null
                                         THEN host.zoneRect ELSE zone.zoneRect],
          FreshPresence)

\* C30: when startCamera completes, the four detectors hold no timer, no
\* accumulator, no previous-frame snapshot and no last-update timestamp, and
\* the first frame of the session returns the results, and leaves the
\* detectors in the states, that detectors constructed anew with the same
\* thresholds and zone would give.
C30_SessionStartsReset ==
    [][/\ (host'.pendingStarts < host.pendingStarts /\ host'.fresh) =>
             /\ fall'.fallenSince = Null
             /\ inactivity'.previousLandmarks = Null
             /\ inactivity'.elapsedInactiveMs = 0
             /\ inactivity'.lastUpdateTimestamp = Null
             /\ zone'.outsideElapsedMs = 0
             /\ zone'.lastUpdateTimestamp = Null
             /\ presence'.absenceElapsedMs = 0
             /\ presence'.lastUpdateTimestamp = Null
       /\ (host.fresh /\ IsFrameStep) =>
             \E frame \in HostFrames :
                 \E w \in {RunUpdates(FreshWorld, UpdateOrder,
                                      frame.landmarks, now')} :
                     /\ host'.results = w.results
                     /\ fall' = w.fall
                     /\ inactivity' = w.inactivity
                     /\ zone' = w.zone
                     /\ presence' = w.presence]_vars

\* C30 witness: a session has just started after an earlier one whose last
\* frame returned ALERT for the inactivity and the presence: the detectors
\* are cleared and no frame of the new session has run.
C30_Witness ==
    /\ host.cameraRunning
    /\ host.fresh
    /\ now > 0
    /\ host.results["inactivity"].status = ALERT
    /\ host.results["presence"].status = ALERT
    /\ inactivity.elapsedInactiveMs = 0
    /\ inactivity.lastUpdateTimestamp = Null
    /\ presence.absenceElapsedMs = 0
    /\ presence.lastUpdateTimestamp = Null

----------------------------------------------------------------------------
(* Status sequences *)

\* A call of update that directly follows a call of update on the driven
\* detector: no configure, setZoneRect or reset lies between the two.
IsConsecutiveUpdate == last.op = "update" /\ last'.op = "update"

\* C31: with non-decreasing timestamps, no detector returns WARNING on the
\* update that directly follows (no configure, setZoneRect or reset between)
\* an update of the same detector that returned ALERT: after ALERT the next
\* status is ALERT or OK.
C31_NoAlertToWarning ==
    [][(IsConsecutiveUpdate /\ last.result.status = ALERT) =>
          last'.result.status \in {ALERT, OK}]_vars

\* C31 witness: an update returned OK directly after an update of the zone
\* detector that returned ALERT.
C31_Witness ==
    /\ last.det = "zone"
    /\ last.op = "update"
    /\ last.prevStatus = ALERT
    /\ last.result.status = OK
    /\ zone.zoneRect # Null
    /\ zone.breachDuration > 0

\* C32: in every reachable state of the Zone Detector, a rectangle of None
\* comes with an outside-accumulator of 0.
C32_NoZoneNoBreachTime ==
    zone.zoneRect = Null => zone.outsideElapsedMs = 0

\* C32 witness: the rectangle was cleared with setZoneRect(None) after
\* updates that had accumulated time outside it.
C32_Witness ==
    /\ last.det = "zone"
    /\ last.op = "setZoneRect"
    /\ last.rect = Null
    /\ last.changed
    /\ last.prevStatus \in {WARNING, ALERT}
    /\ zone.zoneRect = Null
    /\ zone.lastUpdateTimestamp # Null

\* The frame is not inside the rectangle of detector d: no landmarks, or the
\* hip midpoint outside.
NotInside(d, landmarks) ==
    \/ landmarks = Null
    \/ ~HipInside(Val(d.zoneRect), HipOf(Val(landmarks)))

\* C33: reset of the Zone Detector zeroes the outside-accumulator and clears
\* the last-update timestamp and leaves the rectangle and breachDuration as
\* they were; a rectangle set before the reset is enforced after it: two
\* updates 1000 ms apart with a frame not inside it give WARNING, or ALERT
\* when breachDuration is at most 1000.
C33_ZoneResetKeepsZone ==
    [][(last'.det = "zone" /\ last'.op = "reset") =>
          /\ zone' = [zone EXCEPT !.outsideElapsedMs = 0,
                                  !.lastUpdateTimestamp = Null]
          /\ zone'.zoneRect = zone.zoneRect
          /\ zone'.breachDuration = zone.breachDuration
          /\ zone.zoneRect # Null =>
                \A landmarks \in Frames(ZonePoses) :
                    NotInside(zone, landmarks) =>
                        LET first  == ZoneUpdate(zone', landmarks, now')
                            second == ZoneUpdate(first.d, landmarks, now' + 1000)
                        IN  /\ first.result = Result(OK, <<"Inside zone">>)
                            /\ second.result.status =
                                  IF 1000 >= zone.breachDuration
                                  THEN ALERT ELSE WARNING]_vars

\* C33 witness: a reset has just cleared a running breach timer of a
\* detector that holds a rectangle.
C33_Witness ==
    /\ last.det = "zone"
    /\ last.op = "reset"
    /\ last.changed
    /\ last.prevStatus \in {WARNING, ALERT}
    /\ zone.zoneRect # Null
    /\ zone.outsideElapsedMs = 0
    /\ zone.lastUpdateTimestamp = Null
    /\ now > 0

PreviousStatus == IF last.op = "update" THEN last.result.status ELSE last.prevStatus

\* The coming call is an update of the Inactivity Detector without landmarks
\* that has an earlier update to compare with, duration not having been
\* reconfigured in between.
IsNoneUpdateAfterUpdate ==
    /\ last'.det = "inactivity"
    /\ last'.op = "update"
    /\ last'.landmarks = Null
    /\ PreviousStatus # "none"
    /\ ~last.reconfigured

\* C35: an update of the Inactivity Detector without landmarks leaves the
\* accumulator as it was and returns the status derived from it; with
\* duration not reconfigured it returns the status the previous update
\* returned.
C35_NoneKeepsStatus ==
    [][IsNoneUpdateAfterUpdate =>
          /\ inactivity'.elapsedInactiveMs = inactivity.elapsedInactiveMs
          /\ last'.result = buildResult(inactivity)
          /\ last'.result.status = PreviousStatus]_vars

\* C35 as amended: the same, for an update that no reset separates from the
\* previous update.
C35_NoneKeepsStatusWithoutReset ==
    [][(IsNoneUpdateAfterUpdate /\ last.op # "reset") =>
          /\ inactivity'.elapsedInactiveMs = inactivity.elapsedInactiveMs
          /\ last'.result = buildResult(inactivity)
          /\ last'.result.status = PreviousStatus]_vars

\* C35 witness: a second frame without landmarks in a row keeps the ALERT
\* the subject left the frame with.
C35_Witness ==
    /\ last.det = "inactivity"
    /\ last.op = "update"
    /\ last.landmarks = Null
    /\ last.prevStatus = ALERT
    /\ last.result.status = ALERT
    /\ sawNone
    /\ ~prevWasLandmark
    /\ inactivity.previousLandmarks # Null

\* C36: with holdDuration > 0 an update of the Fall Detector returns ALERT
\* only if its latest update before that returned WARNING or ALERT: the
\* status never goes from OK, or from no status, directly to ALERT, however
\* long the interval between the frames.
C36_FallNoOkToAlert ==
    [][(/\ last'.det = "fall"
        /\ last'.op = "update"
        /\ fall.holdDuration > 0
        /\ last'.result.status = ALERT) =>
          PreviousStatus \in {WARNING, ALERT}]_vars

\* C36 witness: one interval as long as holdDuration took the Fall Detector
\* from WARNING to ALERT.
C36_Witness ==
    /\ last.det = "fall"
    /\ last.op = "update"
    /\ last.result.status = ALERT
    /\ last.prevStatus = WARNING
    /\ fall.holdDuration = 1000
    /\ fall.fallenSince # Null
    /\ last.timestamp - Val(fall.fallenSince) = 1000
    /\ fallRunStart = fall.fallenSince

\* C39: in every reachable state of the Inactivity Detector, when no
\* previous landmarks are stored the accumulator is 0, so the status derived
\* from the accumulator is the OK with empty message that the first landmark
\* frame returns.
C39_NoSnapshotNoInactiveTime ==
    inactivity.previousLandmarks = Null =>
        /\ inactivity.elapsedInactiveMs = 0
        /\ buildResult(inactivity) = Result(OK, <<>>)

\* C39 witness: a reset has just cleared the snapshot of a detector that was
\* in ALERT.
C39_Witness ==
    /\ last.det = "inactivity"
    /\ last.op = "reset"
    /\ last.changed
    /\ last.prevStatus = ALERT
    /\ inactivity.previousLandmarks = Null
    /\ inactivity.duration > 0

----------------------------------------------------------------------------
(* The render loop and the zone overlay *)

\* C37: whatever the interleaving of clicks on the camera button, of
\* completions of startCamera and of animation-frame callbacks, at most one
\* renderLoop callback is scheduled at any time.
C37_SingleRenderLoop == host.loops <= 1

\* The rectangle has its corners in order on both axes.
IsNormalized(rect) == rect.x1 <= rect.x2 /\ rect.y1 <= rect.y2

\* The step stores a rectangle in the overlay.
IsCommit ==
    /\ host'.zoneRect # Null
    /\ host'.zoneRect # host.zoneRect \/ host'.lastDrag # host.lastDrag

\* C38: every rectangle the overlay stores, and so every rectangle the
\* zone-change callback reports to the Zone Detector, has x1 <= x2 and
\* y1 <= y2 and spans the two ends of its drag, whatever the direction of
\* the drag; a rectangle is stored only by a mouseup that ends a drag under
\* way, and a drag is started only by a mousedown in drawing mode.
C38_OverlayRectNormalized ==
    [][/\ host'.zoneRect # Null => IsNormalized(Val(host'.zoneRect))
       /\ zone'.zoneRect # Null => IsNormalized(Val(zone'.zoneRect))
       /\ IsCommit =>
             LET rect  == Val(host'.zoneRect)
                 start == Val(host'.lastDrag)[1]
                 end   == Val(host'.lastDrag)[2]
             IN  /\ host.isDrawing
                 /\ host.drawStart = Some(start)
                 /\ ~host'.isDrawing
                 /\ {rect.x1, rect.x2} = {start[1], end[1]}
                 /\ {rect.y1, rect.y2} = {start[2], end[2]}
                 /\ zone'.zoneRect = host'.zoneRect
       /\ (host'.isDrawing /\ host'.drawStart # host.drawStart) =>
             host.drawingModeActive]_vars

\* C38 witness: a drag to the left and downwards, released after drawing
\* mode had been switched off, has stored its rectangle.
C38_Witness ==
    /\ focus = "overlay"
    /\ host.lastDrag # Null
    /\ Val(host.lastDrag)[1][1] > Val(host.lastDrag)[2][1]
    /\ Val(host.lastDrag)[1][2] < Val(host.lastDrag)[2][2]
    /\ host.zoneRect = Some([x1 |-> 2000, y1 |-> 2000, x2 |-> 8000, y2 |-> 8000])
    /\ zone.zoneRect = host.zoneRect
    /\ ~host.drawingModeActive
    /\ ~host.isDrawing

====
